---- MODULE Spec2Model ----
(***************************************************************************)
(* Parking-facility simulation engine of PMS-TOOL.                         *)
(*                                                                         *)
(* The module models                                                       *)
(*   - the grid data model (types.ts, concatenated into                    *)
(*     src/utils/simulation.ts from line 328 on),                          *)
(*   - generateMallDistanceMap, findPath, findBestSpot, getEntryPoints and *)
(*     getExitPoint of src/utils/simulation.ts as operators that compute   *)
(*     what the code computes, in the order the code computes it,          *)
(*   - the interval callback of the main simulation loop of src/App.tsx    *)
(*     as the actions TickNoSpawn and TickSpawn, and the playback, mode,   *)
(*     Clear and Reset All controls of the simulation view.                *)
(*                                                                         *)
(* Coordinates are 0-based as in the code; a grid is a sequence of rows,   *)
(* so grid[y][x] of the code is grid[y + 1][x + 1] here (CellAt).          *)
(* Fields of a car that no decision reads (color, electricalCurrent,       *)
(* entryTick, path) are left out of the car record.                        *)
(***************************************************************************)
EXTENDS Integers, Sequences, FiniteSets, TLC

VARIABLES grid, strictFlow, mallDistMap, cars, occupiedSpots, nextId, totalCars, call,
          step, isPaused, tick

vars == <<grid, strictFlow, mallDistMap, cars, occupiedSpots, nextId, totalCars, call,
          step, isPaused, tick>>

(***************************************************************************)
(* Bounds of the model.                                                    *)
(***************************************************************************)
GridW == 3
GridH == 2
MaxVehicles == 2
MaxWalls == 3
\* the tick counter is kept modulo TickModulus: no decision reads it, and a
\* tick always changes it
TickModulus == 2

(***************************************************************************)
(* types.ts                                                                *)
(***************************************************************************)
EMPTY == 0
WALL == 0
PATH == 1
PARKING == 2
ENTRY == 3
EXIT == 4
MALL == 5
DISPLAY == 6
ZONE_A == 7

NONE == 0
SOLID == 1

STANDARD == "STANDARD"
COMPACT == "COMPACT"
EV == "EV"
DISABLED == "DISABLED"
RESERVED == "RESERVED"
\* cell.spotType left undefined
NoSpotType == ""

\* cell.subMask left undefined
NoMask == <<>>
\* cell.edges left undefined or {}
NoEdges == [north |-> NONE, south |-> NONE, east |-> NONE, west |-> NONE]

\* Number.POSITIVE_INFINITY of the distance map, as a value above every
\* hop count a grid of the modelled size can produce.
Infinity == 1000000

Pt(x, y) == [x |-> x, y |-> y]

GridCell(type, rotation, hasFlow, edges, subMask, spotType) ==
  [type |-> type, rotation |-> rotation, hasFlow |-> hasFlow,
   edges |-> edges, subMask |-> subMask, spotType |-> spotType]

\* grid.length
Height(g) == Len(g)
\* grid[0].length
Width(g) == Len(g[1])
\* grid[y][x]
CellAt(g, x, y) == g[y + 1][x + 1]

Abs(n) == IF n < 0 THEN -n ELSE n

(***************************************************************************)
(* findPath (simulation.ts:53-172).                                        *)
(***************************************************************************)
\* allowedDegrees = null
NullDegrees == -1

directions ==
  << [x |-> 0,  y |-> -1, deg |-> 0,   edge |-> "north", oppEdge |-> "south"],
     [x |-> 1,  y |-> 0,  deg |-> 90,  edge |-> "east",  oppEdge |-> "west"],
     [x |-> 0,  y |-> 1,  deg |-> 180, edge |-> "south", oppEdge |-> "north"],
     [x |-> -1, y |-> 0,  deg |-> 270, edge |-> "west",  oppEdge |-> "east"] >>

RECURSIVE Flat(_)
\* subMask.flat()
Flat(rows) == IF rows = <<>> THEN <<>> ELSE Head(rows) \o Flat(Tail(rows))

\* SubMaskBlocked that blocks a mask that is exactly half solid too
SubMaskBlocked_HalfBlocks(nextCell) ==
  IF nextCell.subMask = NoMask THEN FALSE
  ELSE LET flatMask == Flat(nextCell.subMask)
           solidCount == Cardinality({i \in 1..Len(flatMask) : flatMask[i] = 1})
       IN  2 * solidCount >= Len(flatMask)

\* the sub-mask check, lines 136-141
SubMaskBlocked(nextCell) ==
  IF nextCell.subMask = NoMask THEN FALSE
  ELSE LET flatMask == Flat(nextCell.subMask)
           solidCount == Cardinality({i \in 1..Len(flatMask) : flatMask[i] = 1})
       IN  2 * solidCount > Len(flatMask)

\* IsWalkable with a Path cell walkable only when it has flow, whatever
\* strictMode says
IsWalkable_FlowOnly(nextCell, nx, ny, target, strictMode) ==
  IF nextCell.type = PATH
  THEN nextCell.hasFlow = TRUE
  ELSE \/ nextCell.type = ENTRY
       \/ nextCell.type = EXIT
       \/ (nextCell.type = PARKING /\ nx = target.x /\ ny = target.y)

\* IsWalkable with every Parking cell walkable
IsWalkable_AnyParking(nextCell, nx, ny, target, strictMode) ==
  IF nextCell.type = PATH
  THEN (IF strictMode THEN nextCell.hasFlow = TRUE ELSE TRUE)
  ELSE \/ nextCell.type = ENTRY
       \/ nextCell.type = EXIT
       \/ nextCell.type = PARKING

\* IsWalkable without the Exit among the walkable cell types
IsWalkable_NoExit(nextCell, nx, ny, target, strictMode) ==
  IF nextCell.type = PATH
  THEN (IF strictMode THEN nextCell.hasFlow = TRUE ELSE TRUE)
  ELSE \/ nextCell.type = ENTRY
       \/ (nextCell.type = PARKING /\ nx = target.x /\ ny = target.y)

\* IsWalkable with every Path cell walkable, whatever strictMode says
IsWalkable_AnyPath(nextCell, nx, ny, target, strictMode) ==
  \/ nextCell.type = PATH
  \/ nextCell.type = ENTRY
  \/ nextCell.type = EXIT
  \/ (nextCell.type = PARKING /\ nx = target.x /\ ny = target.y)

\* the walkability check, lines 149-161
IsWalkable(nextCell, nx, ny, target, strictMode) ==
  IF nextCell.type = PATH
  THEN (IF strictMode THEN nextCell.hasFlow = TRUE ELSE TRUE)
  ELSE \/ nextCell.type = ENTRY
       \/ nextCell.type = EXIT
       \/ (nextCell.type = PARKING /\ nx = target.x /\ ny = target.y)

\* OneWayCollision that does not look at strictMode
OneWayCollision_Always(nextCell, dir, strictMode) ==
  /\ nextCell.type = PATH
  /\ nextCell.hasFlow = TRUE
  /\ Abs(nextCell.rotation - dir.deg) = 180

\* OneWayCollision that rejects a perpendicular flow in place of an opposite one
OneWayCollision_Perpendicular(nextCell, dir, strictMode) ==
  /\ strictMode
  /\ nextCell.type = PATH
  /\ nextCell.hasFlow = TRUE
  /\ Abs(nextCell.rotation - dir.deg) = 90

\* OneWayCollision that is in force with strictMode off, not on
OneWayCollision_WhenFree(nextCell, dir, strictMode) ==
  /\ ~strictMode
  /\ nextCell.type = PATH
  /\ nextCell.hasFlow = TRUE
  /\ Abs(nextCell.rotation - dir.deg) = 180

\* the one-way collision check, lines 118-125
OneWayCollision(nextCell, dir, strictMode) ==
  /\ strictMode
  /\ nextCell.type = PATH
  /\ nextCell.hasFlow = TRUE
  /\ Abs(nextCell.rotation - dir.deg) = 180

\* AllowedDegrees that never restricts the direction
AllowedDegrees_Unrestricted(currentCell) == NullDegrees

\* the source-side flow of the dequeued cell, lines 82-96
AllowedDegrees(currentCell) ==
  IF currentCell.type = PATH /\ currentCell.hasFlow = TRUE
  THEN currentCell.rotation
  ELSE NullDegrees

\* TryDirection that applies the source-side flow under strictMode only
TryDirection_FlowLawWhenStrict(g, target, strictMode, pos, path, dir, st) ==
  LET currentCell == CellAt(g, pos.x, pos.y)
      allowedDegrees == AllowedDegrees(currentCell)
      nx == pos.x + dir.x
      ny == pos.y + dir.y
  IN  IF strictMode /\ allowedDegrees # NullDegrees /\ allowedDegrees # dir.deg THEN st
      ELSE IF ~(nx >= 0 /\ nx < Width(g) /\ ny >= 0 /\ ny < Height(g)) THEN st
      ELSE LET nextCell == CellAt(g, nx, ny)
               key == Pt(nx, ny)
           IN  IF OneWayCollision(nextCell, dir, strictMode) THEN st
               ELSE IF currentCell.edges[dir.edge] = SOLID THEN st
               ELSE IF nextCell.edges[dir.oppEdge] = SOLID THEN st
               ELSE IF SubMaskBlocked(nextCell) THEN st
               ELSE IF IsWalkable(nextCell, nx, ny, target, strictMode)
                       /\ key \notin st.visited
                    THEN [queue |-> Append(st.queue, [pos |-> key, path |-> Append(path, key)]),
                          visited |-> st.visited \cup {key}]
                    ELSE st

\* TryDirection that looks at the edges of the cell it leaves only
TryDirection_OwnEdges(g, target, strictMode, pos, path, dir, st) ==
  LET currentCell == CellAt(g, pos.x, pos.y)
      allowedDegrees == AllowedDegrees(currentCell)
      nx == pos.x + dir.x
      ny == pos.y + dir.y
  IN  IF allowedDegrees # NullDegrees /\ allowedDegrees # dir.deg THEN st
      ELSE IF ~(nx >= 0 /\ nx < Width(g) /\ ny >= 0 /\ ny < Height(g)) THEN st
      ELSE LET nextCell == CellAt(g, nx, ny)
               key == Pt(nx, ny)
           IN  IF OneWayCollision(nextCell, dir, strictMode) THEN st
               ELSE IF currentCell.edges[dir.edge] = SOLID THEN st
               ELSE IF SubMaskBlocked(nextCell) THEN st
               ELSE IF IsWalkable(nextCell, nx, ny, target, strictMode)
                       /\ key \notin st.visited
                    THEN [queue |-> Append(st.queue, [pos |-> key, path |-> Append(path, key)]),
                          visited |-> st.visited \cup {key}]
                    ELSE st

\* TryDirection that puts the new entry at the front of the queue
TryDirection_Stack(g, target, strictMode, pos, path, dir, st) ==
  LET currentCell == CellAt(g, pos.x, pos.y)
      allowedDegrees == AllowedDegrees(currentCell)
      nx == pos.x + dir.x
      ny == pos.y + dir.y
  IN  IF allowedDegrees # NullDegrees /\ allowedDegrees # dir.deg THEN st
      ELSE IF ~(nx >= 0 /\ nx < Width(g) /\ ny >= 0 /\ ny < Height(g)) THEN st
      ELSE LET nextCell == CellAt(g, nx, ny)
               key == Pt(nx, ny)
           IN  IF OneWayCollision(nextCell, dir, strictMode) THEN st
               ELSE IF currentCell.edges[dir.edge] = SOLID THEN st
               ELSE IF nextCell.edges[dir.oppEdge] = SOLID THEN st
               ELSE IF SubMaskBlocked(nextCell) THEN st
               ELSE IF IsWalkable(nextCell, nx, ny, target, strictMode)
                       /\ key \notin st.visited
                    THEN [queue |-> <<[pos |-> key, path |-> Append(path, key)]>> \o st.queue,
                          visited |-> st.visited \cup {key}]
                    ELSE st

\* One iteration of the loop over directions (lines 98-168): st is the
\* pair of queue and visited before the iteration, the result the pair after.
TryDirection(g, target, strictMode, pos, path, dir, st) ==
  LET currentCell == CellAt(g, pos.x, pos.y)
      allowedDegrees == AllowedDegrees(currentCell)
      nx == pos.x + dir.x
      ny == pos.y + dir.y
  IN  IF allowedDegrees # NullDegrees /\ allowedDegrees # dir.deg THEN st
      ELSE IF ~(nx >= 0 /\ nx < Width(g) /\ ny >= 0 /\ ny < Height(g)) THEN st
      ELSE LET nextCell == CellAt(g, nx, ny)
               key == Pt(nx, ny)
           IN  IF OneWayCollision(nextCell, dir, strictMode) THEN st
               ELSE IF currentCell.edges[dir.edge] = SOLID THEN st
               ELSE IF nextCell.edges[dir.oppEdge] = SOLID THEN st
               ELSE IF SubMaskBlocked(nextCell) THEN st
               ELSE IF IsWalkable(nextCell, nx, ny, target, strictMode)
                       /\ key \notin st.visited
                    THEN [queue |-> Append(st.queue, [pos |-> key, path |-> Append(path, key)]),
                          visited |-> st.visited \cup {key}]
                    ELSE st

\* the whole loop over directions for one dequeued entry
Expand(g, target, strictMode, pos, path, st) ==
  LET s1 == TryDirection(g, target, strictMode, pos, path, directions[1], st)
      s2 == TryDirection(g, target, strictMode, pos, path, directions[2], s1)
      s3 == TryDirection(g, target, strictMode, pos, path, directions[3], s2)
  IN  TryDirection(g, target, strictMode, pos, path, directions[4], s3)

RECURSIVE SearchLoop(_, _, _, _)
\* the while loop, lines 69-171
SearchLoop(g, target, strictMode, st) ==
  IF st.queue = <<>> THEN <<>>
  ELSE LET pos == Head(st.queue).pos
           path == Head(st.queue).path
       IN  IF pos.x = target.x /\ pos.y = target.y THEN path
           ELSE SearchLoop(g, target, strictMode,
                  Expand(g, target, strictMode, pos, path,
                         [queue |-> Tail(st.queue), visited |-> st.visited]))

\* findPath that seeds the search with an empty path
findPath_NoStart(g, start, target, strictMode) ==
  SearchLoop(g, target, strictMode,
             [queue |-> <<[pos |-> start, path |-> <<>>]>>, visited |-> {start}])

findPath(g, start, target, strictMode) ==
  SearchLoop(g, target, strictMode,
             [queue |-> <<[pos |-> start, path |-> <<start>>]>>, visited |-> {start}])

\* the outcome of a call: it ends with an uncaught TypeError, or it
\* returns a value
TypeError == [threw |-> TRUE, value |-> <<>>]
Returns(v) == [threw |-> FALSE, value |-> v]

\* A call of findPath on any grid with any start: grid[0].length of line 55
\* throws when the grid has no rows; the first turn of the loop returns
\* [start] when start is the target (lines 72-74) and reads
\* grid[pos.y][pos.x] (line 76) and currentCell.type (line 85) otherwise,
\* which throws when start is outside the grid.
findPathOutcome(g, start, target, strictMode) ==
  IF Height(g) = 0 THEN TypeError
  ELSE IF start.x = target.x /\ start.y = target.y THEN Returns(<<start>>)
  ELSE IF start.y < 0 \/ start.y >= Height(g) THEN TypeError
  ELSE IF start.x < 0 \/ start.x >= Len(g[start.y + 1]) THEN TypeError
  ELSE Returns(findPath(g, start, target, strictMode))

(***************************************************************************)
(* generateMallDistanceMap (simulation.ts:12-49).                          *)
(***************************************************************************)
\* the cells of a grid in the order of grid.forEach(row => row.forEach(..))
ScanOrder(g) ==
  IF Height(g) = 0 THEN <<>>
  ELSE [i \in 1..(Height(g) * Width(g)) |->
          Pt((i - 1) % Width(g), (i - 1) \div Width(g))]

RECURSIVE SelectSeqPts(_, _, _)
SelectSeqPts(g, s, type) ==
  IF s = <<>> THEN <<>>
  ELSE IF CellAt(g, Head(s).x, Head(s).y).type = type
       THEN <<Head(s)>> \o SelectSeqPts(g, Tail(s), type)
       ELSE SelectSeqPts(g, Tail(s), type)

mallDirections == << Pt(0, 1), Pt(0, -1), Pt(1, 0), Pt(-1, 0) >>

\* lines 13-24: the map filled with Infinity, then 0 at every mall entrance
InitialDistMap(g) ==
  [yy \in 1..Height(g) |->
     [xx \in 1..Width(g) |-> IF g[yy][xx].type = MALL THEN 0 ELSE Infinity]]

\* Relax without the obstacle test
Relax_ThroughWalls(g, x, y, dir, st) ==
  LET currentDist == st.distMap[y + 1][x + 1]
      nx == x + dir.x
      ny == y + dir.y
  IN  IF nx >= 0 /\ nx < Width(g) /\ ny >= 0 /\ ny < Height(g)
      THEN IF st.distMap[ny + 1][nx + 1] > currentDist + 1
           THEN [distMap |-> [st.distMap EXCEPT ![ny + 1][nx + 1] = currentDist + 1],
                 queue |-> Append(st.queue, Pt(nx, ny))]
           ELSE st
      ELSE st

\* one iteration of the loop over directions, lines 33-46
Relax(g, x, y, dir, st) ==
  LET currentDist == st.distMap[y + 1][x + 1]
      nx == x + dir.x
      ny == y + dir.y
  IN  IF nx >= 0 /\ nx < Width(g) /\ ny >= 0 /\ ny < Height(g)
      THEN LET isObstacle == CellAt(g, nx, ny).type = WALL
           IN  IF ~isObstacle /\ st.distMap[ny + 1][nx + 1] > currentDist + 1
               THEN [distMap |-> [st.distMap EXCEPT ![ny + 1][nx + 1] = currentDist + 1],
                     queue |-> Append(st.queue, Pt(nx, ny))]
               ELSE st
      ELSE st

RECURSIVE MallLoop(_, _)
\* the while loop, lines 29-47
MallLoop(g, st) ==
  IF st.queue = <<>> THEN st.distMap
  ELSE LET p == Head(st.queue)
           s0 == [distMap |-> st.distMap, queue |-> Tail(st.queue)]
           s1 == Relax(g, p.x, p.y, mallDirections[1], s0)
           s2 == Relax(g, p.x, p.y, mallDirections[2], s1)
           s3 == Relax(g, p.x, p.y, mallDirections[3], s2)
           s4 == Relax(g, p.x, p.y, mallDirections[4], s3)
       IN  MallLoop(g, s4)

generateMallDistanceMap(g) ==
  IF Height(g) = 0 THEN <<>>
  ELSE MallLoop(g, [distMap |-> InitialDistMap(g),
                    queue |-> SelectSeqPts(g, ScanOrder(g), MALL)])

(***************************************************************************)
(* findBestSpot, getEntryPoints, getExitPoint (simulation.ts:175-245).     *)
(*                                                                         *)
(* Scores are kept as integers, 20 times the score of the code, with       *)
(* walkingPreference in tenths: 20 * W_MALL = 4 * wp, 20 * W_ENTRY =       *)
(* 10 - wp, and 20 * (Math.random() * 10 * W_RANDOM) lies in [0, 40).      *)
(***************************************************************************)
\* a null Point
NullPoint == [x |-> -1, y |-> -1]
\* the optional mallDistanceMap argument left undefined
NoDistMap == << <<-1>> >>

\* IsCompatible that lets a Disabled preference fall through to the
\* Standard branch
IsCompatible_DisabledAsStandard(cell, carType) ==
  LET cellSpotType == IF cell.spotType = NoSpotType THEN STANDARD ELSE cell.spotType
  IN  IF carType = EV THEN cellSpotType = EV \/ cellSpotType = STANDARD
      ELSE cellSpotType = STANDARD \/ cellSpotType = COMPACT

\* the compatibility check, lines 194-204
IsCompatible(cell, carType) ==
  LET cellSpotType == IF cell.spotType = NoSpotType THEN STANDARD ELSE cell.spotType
  IN  IF carType = EV THEN cellSpotType = EV \/ cellSpotType = STANDARD
      ELSE IF carType = DISABLED THEN cellSpotType = DISABLED
      ELSE cellSpotType = STANDARD \/ cellSpotType = COMPACT

RECURSIVE CandidatePoints(_, _, _, _)
\* the points that pass the filter of lines 192-206, in scan order
CandidatePoints(g, occupied, carType, s) ==
  IF s = <<>> THEN <<>>
  ELSE LET p == Head(s)
           cell == CellAt(g, p.x, p.y)
           rest == CandidatePoints(g, occupied, carType, Tail(s))
       IN  IF cell.type = PARKING /\ p \notin occupied /\ IsCompatible(cell, carType)
           THEN <<p>> \o rest
           ELSE rest

\* the score of line 213, times 20; rnd is 20 * Math.random() * 10 * W_RANDOM
Score(p, entryPoint, profile, mallDistanceMap, rnd) ==
  LET distToMall == IF mallDistanceMap = NoDistMap THEN 0
                    ELSE mallDistanceMap[p.y + 1][p.x + 1]
      distFromEntry == Abs(p.x - entryPoint.x) + Abs(p.y - entryPoint.y)
  IN  IF distToMall = Infinity THEN Infinity
      ELSE distToMall * 4 * profile.walkingPreference
           + distFromEntry * (10 - profile.walkingPreference) + rnd

RECURSIVE InsertSorted(_, _)
\* stable insertion of c into a list sorted by score ascending
InsertSorted(sorted, c) ==
  IF sorted = <<>> THEN <<c>>
  ELSE IF c.score - Head(sorted).score < 0
       THEN <<c>> \o sorted
       ELSE <<Head(sorted)>> \o InsertSorted(Tail(sorted), c)

RECURSIVE SortByScore(_, _)
\* candidates.sort((a, b) => a.score - b.score), line 224 (a stable sort)
SortByScore(cands, acc) ==
  IF cands = <<>> THEN acc
  ELSE SortByScore(Tail(cands), InsertSorted(acc, Head(cands)))

\* findBestSpot that returns none when the best candidate is out of reach
\* of every mall entrance
findBestSpot_NoneWhenUnreachable(g, occupied, entryPoint, carType, profile, mallDistanceMap, noise) ==
  LET pts == CandidatePoints(g, occupied, carType, ScanOrder(g))
      candidates == [i \in 1..Len(pts) |->
                       [point |-> pts[i],
                        score |-> Score(pts[i], entryPoint, profile, mallDistanceMap, noise[i])]]
  IN  IF Len(candidates) = 0 THEN NullPoint
      ELSE IF SortByScore(candidates, <<>>)[1].score = Infinity THEN NullPoint
      ELSE SortByScore(candidates, <<>>)[1].point

\* noise[i] is the random term of the i-th candidate in scan order
findBestSpot(g, occupied, entryPoint, carType, profile, mallDistanceMap, noise) ==
  LET pts == CandidatePoints(g, occupied, carType, ScanOrder(g))
      candidates == [i \in 1..Len(pts) |->
                       [point |-> pts[i],
                        score |-> Score(pts[i], entryPoint, profile, mallDistanceMap, noise[i])]]
  IN  IF Len(candidates) = 0 THEN NullPoint
      ELSE SortByScore(candidates, <<>>)[1].point

getEntryPoints(g) == SelectSeqPts(g, ScanOrder(g), ENTRY)

getExitPoint(g) ==
  LET exits == SelectSeqPts(g, ScanOrder(g), EXIT)
  IN  IF exits = <<>> THEN NullPoint ELSE exits[1]

(***************************************************************************)
(* Grids.  A grid is what the editor of App.tsx leaves behind: a layout    *)
(* (one of five layouts defined for every width and height) on which one   *)
(* more edit was made, or on which two neighbouring cells were painted.    *)
(***************************************************************************)
Wall == GridCell(EMPTY, 0, FALSE, NoEdges, NoMask, NoSpotType)
PathNoFlow == GridCell(PATH, 0, FALSE, NoEdges, NoMask, NoSpotType)
PathFlow(deg) == GridCell(PATH, deg, TRUE, NoEdges, NoMask, NoSpotType)
Parking(spotType) == GridCell(PARKING, 0, FALSE, NoEdges, NoMask, spotType)
Entry == GridCell(ENTRY, 0, FALSE, NoEdges, NoMask, NoSpotType)
Exit == GridCell(EXIT, 0, FALSE, NoEdges, NoMask, NoSpotType)
Mall == GridCell(MALL, 0, FALSE, NoEdges, NoMask, NoSpotType)
Display == GridCell(DISPLAY, 0, FALSE, NoEdges, NoMask, NoSpotType)

Points == {Pt(x, y) : x \in 0..(GridW - 1), y \in 0..(GridH - 1)}

\* every Path cell flows east; Entry on the left, Exit on the right of the
\* middle row, a mall entrance in the top row
LayoutEast(x, y) ==
  IF x = 0 /\ y = GridH \div 2 THEN Entry
  ELSE IF x = GridW - 1 /\ y = GridH \div 2 THEN Exit
  ELSE IF x = GridW \div 2 /\ y = 0 THEN Mall
  ELSE PathFlow(90)

\* Path cells without flow; Entry, Parking, Mall and Exit in the corners
LayoutOpen(x, y) ==
  IF x = 0 /\ y = 0 THEN Entry
  ELSE IF x = GridW - 1 /\ y = 0 THEN Parking(STANDARD)
  ELSE IF x = 0 /\ y = GridH - 1 THEN Mall
  ELSE IF x = GridW - 1 /\ y = GridH - 1 THEN Exit
  ELSE PathNoFlow

\* a clockwise one-way ring on the border, parking inside
LayoutRing(x, y) ==
  IF y = 0 /\ x < GridW - 1 THEN PathFlow(90)
  ELSE IF x = GridW - 1 /\ y < GridH - 1 THEN PathFlow(180)
  ELSE IF y = GridH - 1 /\ x > 0 THEN PathFlow(270)
  ELSE IF x = 0 THEN PathFlow(0)
  ELSE Parking(NoSpotType)

\* a lane from the Entry east to a spot, down the right side and back west
\* along the bottom row to the Exit
LayoutLot(x, y) ==
  IF x = 0 /\ y = 0 THEN Entry
  ELSE IF x = 0 /\ y = GridH - 1 THEN Exit
  ELSE IF x = GridW - 1 /\ y = 0 THEN Parking(STANDARD)
  ELSE IF y = 0 THEN PathFlow(90)
  ELSE IF y = GridH - 1 THEN PathFlow(270)
  ELSE IF x = GridW - 1 THEN PathFlow(180)
  ELSE IF x = 0 THEN Mall
  ELSE Parking(EV)

\* a spot, the Entry, a lane east and the Exit in the top row: the way
\* from the spot to the Exit leads over the Entry
LayoutGate(x, y) ==
  IF y > 0 THEN Wall
  ELSE IF x = 0 THEN Parking(STANDARD)
  ELSE IF x = 1 THEN Entry
  ELSE IF x = GridW - 1 THEN Exit
  ELSE PathFlow(90)

\* Entry, mall entrance and Exit in the top row, spots of every type below
LayoutSpots(x, y) ==
  IF y = 0
  THEN (IF x = 0 THEN Entry ELSE IF x = GridW - 1 THEN Exit ELSE Mall)
  ELSE Parking(<<STANDARD, EV, DISABLED, COMPACT, RESERVED, NoSpotType>>
                 [((x + (y - 1) * GridW) % 6) + 1])

GridEast == [yy \in 1..GridH |-> [xx \in 1..GridW |-> LayoutEast(xx - 1, yy - 1)]]
GridOpen == [yy \in 1..GridH |-> [xx \in 1..GridW |-> LayoutOpen(xx - 1, yy - 1)]]
GridRing == [yy \in 1..GridH |-> [xx \in 1..GridW |-> LayoutRing(xx - 1, yy - 1)]]
GridLot == [yy \in 1..GridH |-> [xx \in 1..GridW |-> LayoutLot(xx - 1, yy - 1)]]
GridGate == [yy \in 1..GridH |-> [xx \in 1..GridW |-> LayoutGate(xx - 1, yy - 1)]]
GridSpots == [yy \in 1..GridH |-> [xx \in 1..GridW |-> LayoutSpots(xx - 1, yy - 1)]]

Layouts == {GridEast, GridOpen, GridRing, GridLot, GridSpots}

SpotTypes == {STANDARD, COMPACT, EV, DISABLED, RESERVED}

CellKinds ==
  {Wall, PathNoFlow, Entry, Exit, Mall, Display, Parking(NoSpotType)}
  \cup {PathFlow(d) : d \in {0, 90, 180, 270}}
  \cup {Parking(t) : t \in SpotTypes}

HalfMask == << <<1, 0>>, <<0, 1>> >>
MostMask == << <<1, 1>>, <<0, 1>> >>

\* the edits: paint a cell, toggle one edge wall, give a cell a sub-mask
Edits ==
  {[op |-> "paint", cell |-> k] : k \in CellKinds}
  \cup {[op |-> "edge", edge |-> e] : e \in {"north", "south", "east", "west"}}
  \cup {[op |-> "mask", mask |-> m] : m \in {HalfMask, MostMask}}

EditCell(c, e) ==
  IF e.op = "paint" THEN e.cell
  ELSE IF e.op = "edge"
       THEN [c EXCEPT !.edges = [c.edges EXCEPT ![e.edge] =
                                   IF c.edges[e.edge] = SOLID THEN NONE ELSE SOLID]]
       ELSE [c EXCEPT !.subMask = e.mask]

ApplyEdit(g, p, e) == [g EXCEPT ![p.y + 1][p.x + 1] = EditCell(g[p.y + 1][p.x + 1], e)]

Grids == Layouts \cup {ApplyEdit(g, p, e) : g \in Layouts, p \in Points, e \in Edits}

\* the kinds of cell that shape a route
RouteKinds ==
  {Wall, PathNoFlow, Entry, Parking(STANDARD)} \cup {PathFlow(d) : d \in {0, 90, 180, 270}}

\* a cell and its neighbour to the east or to the south
NeighbourPairs ==
  {pq \in Points \X Points :
     \/ pq[2].x = pq[1].x + 1 /\ pq[2].y = pq[1].y
     \/ pq[2].x = pq[1].x /\ pq[2].y = pq[1].y + 1}

\* the open layout with two neighbouring cells painted
TwicePainted ==
  {ApplyEdit(ApplyEdit(g, pq[1], [op |-> "paint", cell |-> k[1]]),
             pq[2], [op |-> "paint", cell |-> k[2]]) :
     g \in {GridOpen}, pq \in NeighbourPairs,
     k \in RouteKinds \X RouteKinds}

PathGrids == Grids \cup TwicePainted

(***************************************************************************)
(* Random draws are inputs.  A profile (createDriverProfile, lines 4-8)    *)
(* keeps walkingPreference and parkingDurationBias in tenths; patience is  *)
(* read nowhere and left out.  A dwell roll is the value of                *)
(* Math.random() * 40, a noise level 20 times the random term of a score.  *)
(***************************************************************************)
Profiles == {[walkingPreference |-> 3, parkingDurationBias |-> 5],
             [walkingPreference |-> 9, parkingDurationBias |-> 5]}
\* the profiles of the cars of a simulation run
SimProfiles == {p \in Profiles : p.walkingPreference = 3}
DwellRolls == {0, 2}
NoiseLevels == {0, 39}
\* the draws of the random terms of n candidates: the same term for all, or
\* the least term for one candidate and the greatest for the others
NoiseDraws(n) ==
  {[i \in 1..n |-> 0]}
  \cup {[i \in 1..n |-> IF i = k THEN 0 ELSE 39] : k \in 1..n}
\* the preferences the spawn step draws, lines 563-572
CarTypes == {STANDARD, EV, DISABLED}

(***************************************************************************)
(* Calls of the three pure functions on a grid.                            *)
(***************************************************************************)
NoCall == [fn |-> "none"]

InitCommon ==
  /\ cars = <<>>
  /\ occupiedSpots = {}
  /\ nextId = 0
  /\ totalCars = 0
  /\ call = NoCall
  /\ step = "simulate"
  /\ isPaused = FALSE
  /\ tick = 0

InitPath ==
  /\ grid \in PathGrids
  /\ strictFlow \in BOOLEAN
  /\ mallDistMap = NoDistMap
  /\ InitCommon

CallFindPath ==
  /\ call = NoCall
  /\ \E start \in Points, target \in Points :
       call' = [fn |-> "findPath", start |-> start, target |-> target,
                result |-> findPath(grid, start, target, strictFlow)]
  /\ UNCHANGED <<grid, strictFlow, mallDistMap, cars, occupiedSpots, nextId, totalCars,
               step, isPaused, tick>>

NextPath == CallFindPath

SpecPath == InitPath /\ [][NextPath]_vars

\* every grid of Wall, mall entrance and Path cells with at most two mall
\* entrances and at most MaxWalls walls
MallGrids ==
  {[yy \in 1..GridH |-> [xx \in 1..GridW |->
      IF Pt(xx - 1, yy - 1) \in malls THEN Mall
      ELSE IF Pt(xx - 1, yy - 1) \in walls THEN Wall ELSE PathNoFlow]] :
     malls \in {M \in SUBSET Points : Cardinality(M) <= 2},
     walls \in {W \in SUBSET Points : Cardinality(W) <= MaxWalls}}

InitMall ==
  /\ grid \in MallGrids
  /\ strictFlow = TRUE
  /\ mallDistMap = NoDistMap
  /\ InitCommon

CallGenerateMallDistanceMap ==
  /\ call = NoCall
  /\ call' = [fn |-> "generateMallDistanceMap", result |-> generateMallDistanceMap(grid)]
  /\ UNCHANGED <<grid, strictFlow, mallDistMap, cars, occupiedSpots, nextId, totalCars,
               step, isPaused, tick>>

NextMall == CallGenerateMallDistanceMap

SpecMall == InitMall /\ [][NextMall]_vars

\* the zero-sized grids: no rows, or rows of zero width
ZeroGrids == {<<>>} \cup {[yy \in 1..h |-> <<>>] : h \in 1..GridH}

\* start and target arguments, some of them with a negative coordinate
AnyPoints == {Pt(x, y) : x \in (0 - 1)..(GridW - 1), y \in (0 - 1)..(GridH - 1)}

InitZero ==
  /\ grid \in ZeroGrids
  /\ strictFlow \in BOOLEAN
  /\ mallDistMap = NoDistMap
  /\ InitCommon

CallFindPathOutcome ==
  /\ call = NoCall
  /\ \E start \in AnyPoints, target \in AnyPoints :
       call' = [fn |-> "findPath", start |-> start, target |-> target,
                result |-> findPathOutcome(grid, start, target, strictFlow)]
  /\ UNCHANGED <<grid, strictFlow, mallDistMap, cars, occupiedSpots, nextId, totalCars,
               step, isPaused, tick>>

NextZero == CallFindPathOutcome \/ CallGenerateMallDistanceMap

SpecZero == InitZero /\ [][NextZero]_vars

ParkingPoints(g) == {p \in Points : CellAt(g, p.x, p.y).type = PARKING}

\* the layout of spots, as it is and with one cell painted as a spot of
\* some type, a wall or a mall entrance
SpotGrids ==
  {GridSpots}
  \cup {ApplyEdit(GridSpots, p, [op |-> "paint", cell |-> k]) :
          p \in Points,
          k \in {Wall, Mall, Parking(NoSpotType)} \cup {Parking(t) : t \in SpotTypes}}

\* the sets of occupied spots of a call: at most one spot occupied, or at
\* most one spot free
OccupiedSets(g) ==
  {S \in SUBSET ParkingPoints(g) :
     Cardinality(S) <= 1 \/ Cardinality(ParkingPoints(g) \ S) <= 1}

InitSpot ==
  /\ grid \in SpotGrids
  /\ strictFlow = TRUE
  /\ mallDistMap \in {NoDistMap, generateMallDistanceMap(grid)}
  /\ InitCommon

CallFindBestSpot ==
  /\ call = NoCall
  /\ \E occupied \in OccupiedSets(grid),
        entryPoint \in {Pt(0, 0), Pt(GridW - 1, GridH - 1)},
        carType \in SpotTypes,
        profile \in Profiles :
       LET n == Len(CandidatePoints(grid, occupied, carType, ScanOrder(grid)))
       IN  \E noise \in NoiseDraws(n) :
             call' = [fn |-> "findBestSpot", occupied |-> occupied,
                      entryPoint |-> entryPoint, carType |-> carType,
                      profile |-> profile, noise |-> noise,
                      result |-> findBestSpot(grid, occupied, entryPoint, carType,
                                              profile, mallDistMap, noise)]
  /\ UNCHANGED <<grid, strictFlow, mallDistMap, cars, occupiedSpots, nextId, totalCars,
               step, isPaused, tick>>

NextSpot == CallFindBestSpot

SpecSpot == InitSpot /\ [][NextSpot]_vars

(***************************************************************************)
(* The main simulation loop (App.tsx:501-599).  One Tick is one run of the *)
(* interval callback: the update of every car in list order, then the      *)
(* spawn step, with the setOccupiedSpots updaters applied in the order in  *)
(* which the callback queued them.                                         *)
(*                                                                         *)
(* Random draws are inputs of the action.  Car ids, random strings in the  *)
(* code, are drawn fresh (nextId).  After a tick, call holds what the      *)
(* spawn step of that tick saw: the Entry it chose, the spot the selector  *)
(* returned and isBlocked; it is NoCall after a tick without spawn step.   *)
(***************************************************************************)
\* Math.floor((20 + Math.random() * 40) * car.profile.parkingDurationBias)
DwellTime(roll, profile) == ((20 + roll) * profile.parkingDurationBias) \div 10

\* UpdateCar that leaves the cell of a car in OccupiedSpots when its
\* parkingTime runs out
UpdateCar_KeepSpot(car, roll, acc) ==
  IF car.state = "entering" \/ car.state = "exiting"
  THEN IF car.target # NullPoint
       THEN LET path == findPath(grid, Pt(car.x, car.y), car.target, strictFlow)
            IN  IF Len(path) > 1
                THEN [acc EXCEPT !.nextCars =
                        Append(@, [car EXCEPT !.x = path[2].x, !.y = path[2].y])]
                ELSE IF car.state = "entering"
                     THEN [acc EXCEPT
                             !.nextCars = Append(@, [car EXCEPT
                                            !.state = "parking",
                                            !.parkingTime = DwellTime(roll, car.profile)]),
                             !.totalCars = @ + 1]
                     ELSE acc
       ELSE [acc EXCEPT !.nextCars = Append(@, car)]
  ELSE IF car.state = "parking"
       THEN IF car.parkingTime - 1 <= 0
            THEN [acc EXCEPT
                    !.nextCars = Append(@, [car EXCEPT
                                   !.parkingTime = car.parkingTime - 1,
                                   !.state = "exiting",
                                   !.target = getExitPoint(grid)])]
            ELSE [acc EXCEPT
                    !.nextCars = Append(@, [car EXCEPT !.parkingTime = car.parkingTime - 1]),
                    !.occupied = @ \cup {Pt(car.x, car.y)}]
       ELSE [acc EXCEPT !.nextCars = Append(@, car)]

\* UpdateCar that drops a car from the list when its parking time runs out
UpdateCar_DropOnExpiry(car, roll, acc) ==
  IF car.state = "entering" \/ car.state = "exiting"
  THEN IF car.target # NullPoint
       THEN LET path == findPath(grid, Pt(car.x, car.y), car.target, strictFlow)
            IN  IF Len(path) > 1
                THEN [acc EXCEPT !.nextCars =
                        Append(@, [car EXCEPT !.x = path[2].x, !.y = path[2].y])]
                ELSE IF car.state = "entering"
                     THEN [acc EXCEPT
                             !.nextCars = Append(@, [car EXCEPT
                                            !.state = "parking",
                                            !.parkingTime = DwellTime(roll, car.profile)]),
                             !.totalCars = @ + 1]
                     ELSE acc
       ELSE [acc EXCEPT !.nextCars = Append(@, car)]
  ELSE IF car.state = "parking"
       THEN IF car.parkingTime - 1 <= 0
            THEN [acc EXCEPT !.occupied = @ \ {Pt(car.x, car.y)}]
            ELSE [acc EXCEPT
                    !.nextCars = Append(@, [car EXCEPT !.parkingTime = car.parkingTime - 1]),
                    !.occupied = @ \cup {Pt(car.x, car.y)}]
       ELSE [acc EXCEPT !.nextCars = Append(@, car)]

\* UpdateCar that advances a car to the third cell of a route that has one
UpdateCar_TwoHops(car, roll, acc) ==
  IF car.state = "entering" \/ car.state = "exiting"
  THEN IF car.target # NullPoint
       THEN LET path == findPath(grid, Pt(car.x, car.y), car.target, strictFlow)
            IN  IF Len(path) > 2
                THEN [acc EXCEPT !.nextCars =
                        Append(@, [car EXCEPT !.x = path[3].x, !.y = path[3].y])]
                ELSE IF Len(path) > 1
                THEN [acc EXCEPT !.nextCars =
                        Append(@, [car EXCEPT !.x = path[2].x, !.y = path[2].y])]
                ELSE IF car.state = "entering"
                     THEN [acc EXCEPT
                             !.nextCars = Append(@, [car EXCEPT
                                            !.state = "parking",
                                            !.parkingTime = DwellTime(roll, car.profile)]),
                             !.totalCars = @ + 1]
                     ELSE acc
       ELSE [acc EXCEPT !.nextCars = Append(@, car)]
  ELSE IF car.state = "parking"
       THEN IF car.parkingTime - 1 <= 0
            THEN [acc EXCEPT
                    !.nextCars = Append(@, [car EXCEPT
                                   !.parkingTime = car.parkingTime - 1,
                                   !.state = "exiting",
                                   !.target = getExitPoint(grid)]),
                    !.occupied = @ \ {Pt(car.x, car.y)}]
            ELSE [acc EXCEPT
                    !.nextCars = Append(@, [car EXCEPT !.parkingTime = car.parkingTime - 1]),
                    !.occupied = @ \cup {Pt(car.x, car.y)}]
       ELSE [acc EXCEPT !.nextCars = Append(@, car)]

\* UpdateCar that turns an entering car into a parked one in the tick in
\* which it steps onto its target
UpdateCar_ParkOnArrival(car, roll, acc) ==
  IF car.state = "entering" \/ car.state = "exiting"
  THEN IF car.target # NullPoint
       THEN LET path == findPath(grid, Pt(car.x, car.y), car.target, strictFlow)
            IN  IF Len(path) > 2 \/ (Len(path) = 2 /\ car.state = "exiting")
                THEN [acc EXCEPT !.nextCars =
                        Append(@, [car EXCEPT !.x = path[2].x, !.y = path[2].y])]
                ELSE IF car.state = "entering"
                     THEN [acc EXCEPT
                             !.nextCars = Append(@, [car EXCEPT
                                            !.x = car.target.x, !.y = car.target.y,
                                            !.state = "parking",
                                            !.parkingTime = DwellTime(roll, car.profile)]),
                             !.totalCars = @ + 1]
                     ELSE acc
       ELSE [acc EXCEPT !.nextCars = Append(@, car)]
  ELSE IF car.state = "parking"
       THEN IF car.parkingTime - 1 <= 0
            THEN [acc EXCEPT
                    !.nextCars = Append(@, [car EXCEPT
                                   !.parkingTime = car.parkingTime - 1,
                                   !.state = "exiting",
                                   !.target = getExitPoint(grid)]),
                    !.occupied = @ \ {Pt(car.x, car.y)}]
            ELSE [acc EXCEPT
                    !.nextCars = Append(@, [car EXCEPT !.parkingTime = car.parkingTime - 1]),
                    !.occupied = @ \cup {Pt(car.x, car.y)}]
       ELSE [acc EXCEPT !.nextCars = Append(@, car)]

\* UpdateCar that sends a parked car off one tick before its parkingTime
\* runs out
UpdateCar_LeavesEarly(car, roll, acc) ==
  IF car.state = "entering" \/ car.state = "exiting"
  THEN IF car.target # NullPoint
       THEN LET path == findPath(grid, Pt(car.x, car.y), car.target, strictFlow)
            IN  IF Len(path) > 1
                THEN [acc EXCEPT !.nextCars =
                        Append(@, [car EXCEPT !.x = path[2].x, !.y = path[2].y])]
                ELSE IF car.state = "entering"
                     THEN [acc EXCEPT
                             !.nextCars = Append(@, [car EXCEPT
                                            !.state = "parking",
                                            !.parkingTime = DwellTime(roll, car.profile)]),
                             !.totalCars = @ + 1]
                     ELSE acc
       ELSE [acc EXCEPT !.nextCars = Append(@, car)]
  ELSE IF car.state = "parking"
       THEN IF car.parkingTime - 1 <= 1
            THEN [acc EXCEPT
                    !.nextCars = Append(@, [car EXCEPT
                                   !.parkingTime = car.parkingTime - 1,
                                   !.state = "exiting",
                                   !.target = getExitPoint(grid)]),
                    !.occupied = @ \ {Pt(car.x, car.y)}]
            ELSE [acc EXCEPT
                    !.nextCars = Append(@, [car EXCEPT !.parkingTime = car.parkingTime - 1]),
                    !.occupied = @ \cup {Pt(car.x, car.y)}]
       ELSE [acc EXCEPT !.nextCars = Append(@, car)]

\* UpdateCar that counts a car when it leaves its spot, not when it parks
UpdateCar_CountsOnLeave(car, roll, acc) ==
  IF car.state = "entering" \/ car.state = "exiting"
  THEN IF car.target # NullPoint
       THEN LET path == findPath(grid, Pt(car.x, car.y), car.target, strictFlow)
            IN  IF Len(path) > 1
                THEN [acc EXCEPT !.nextCars =
                        Append(@, [car EXCEPT !.x = path[2].x, !.y = path[2].y])]
                ELSE IF car.state = "entering"
                     THEN [acc EXCEPT
                             !.nextCars = Append(@, [car EXCEPT
                                            !.state = "parking",
                                            !.parkingTime = DwellTime(roll, car.profile)])]
                     ELSE acc
       ELSE [acc EXCEPT !.nextCars = Append(@, car)]
  ELSE IF car.state = "parking"
       THEN IF car.parkingTime - 1 <= 0
            THEN [acc EXCEPT
                    !.nextCars = Append(@, [car EXCEPT
                                   !.parkingTime = car.parkingTime - 1,
                                   !.state = "exiting",
                                   !.target = getExitPoint(grid)]),
                    !.occupied = @ \ {Pt(car.x, car.y)},
                    !.totalCars = @ + 1]
            ELSE [acc EXCEPT
                    !.nextCars = Append(@, [car EXCEPT !.parkingTime = car.parkingTime - 1]),
                    !.occupied = @ \cup {Pt(car.x, car.y)}]
       ELSE [acc EXCEPT !.nextCars = Append(@, car)]

\* UpdateCar that takes the spot of a car out of OccupiedSpots when the car
\* arrives on it
UpdateCar_ReleaseOnArrival(car, roll, acc) ==
  IF car.state = "entering" \/ car.state = "exiting"
  THEN IF car.target # NullPoint
       THEN LET path == findPath(grid, Pt(car.x, car.y), car.target, strictFlow)
            IN  IF Len(path) > 1
                THEN [acc EXCEPT !.nextCars =
                        Append(@, [car EXCEPT !.x = path[2].x, !.y = path[2].y])]
                ELSE IF car.state = "entering"
                     THEN [acc EXCEPT
                             !.nextCars = Append(@, [car EXCEPT
                                            !.state = "parking",
                                            !.parkingTime = DwellTime(roll, car.profile)]),
                             !.occupied = @ \ {car.target},
                             !.totalCars = @ + 1]
                     ELSE acc
       ELSE [acc EXCEPT !.nextCars = Append(@, car)]
  ELSE IF car.state = "parking"
       THEN IF car.parkingTime - 1 <= 0
            THEN [acc EXCEPT
                    !.nextCars = Append(@, [car EXCEPT
                                   !.parkingTime = car.parkingTime - 1,
                                   !.state = "exiting",
                                   !.target = getExitPoint(grid)]),
                    !.occupied = @ \ {Pt(car.x, car.y)}]
            ELSE [acc EXCEPT
                    !.nextCars = Append(@, [car EXCEPT !.parkingTime = car.parkingTime - 1]),
                    !.occupied = @ \cup {Pt(car.x, car.y)}]
       ELSE [acc EXCEPT !.nextCars = Append(@, car)]

\* The body of prevCars.forEach (lines 516-556) for one car.  acc holds
\* nextCars, the occupied set after the updaters queued so far, and the
\* totalCars counter.
UpdateCar(car, roll, acc) ==
  IF car.state = "entering" \/ car.state = "exiting"
  THEN IF car.target # NullPoint
       THEN LET path == findPath(grid, Pt(car.x, car.y), car.target, strictFlow)
            IN  IF Len(path) > 1
                THEN [acc EXCEPT !.nextCars =
                        Append(@, [car EXCEPT !.x = path[2].x, !.y = path[2].y])]
                ELSE IF car.state = "entering"
                     THEN [acc EXCEPT
                             !.nextCars = Append(@, [car EXCEPT
                                            !.state = "parking",
                                            !.parkingTime = DwellTime(roll, car.profile)]),
                             !.totalCars = @ + 1]
                     ELSE acc
       ELSE [acc EXCEPT !.nextCars = Append(@, car)]
  ELSE IF car.state = "parking"
       THEN IF car.parkingTime - 1 <= 0
            THEN [acc EXCEPT
                    !.nextCars = Append(@, [car EXCEPT
                                   !.parkingTime = car.parkingTime - 1,
                                   !.state = "exiting",
                                   !.target = getExitPoint(grid)]),
                    !.occupied = @ \ {Pt(car.x, car.y)}]
            ELSE [acc EXCEPT
                    !.nextCars = Append(@, [car EXCEPT !.parkingTime = car.parkingTime - 1]),
                    !.occupied = @ \cup {Pt(car.x, car.y)}]
       ELSE [acc EXCEPT !.nextCars = Append(@, car)]

RECURSIVE UpdateCars(_, _, _, _)
\* prevCars.forEach, lines 516-556
UpdateCars(prevCars, i, rolls, acc) ==
  IF i > Len(prevCars) THEN acc
  ELSE UpdateCars(prevCars, i + 1, rolls,
                  UpdateCar(prevCars[i],
                            IF i \in DOMAIN rolls THEN rolls[i] ELSE 0, acc))

\* the cars that draw a dwell time when they arrive: Math.random() of line
\* 529 is read in the branch of an entering car only
Entering == {i \in 1..Len(cars) : cars[i].state = "entering"}

Moved(rolls) ==
  UpdateCars(cars, 1, rolls,
             [nextCars |-> <<>>, occupied |-> occupiedSpots, totalCars |-> totalCars])

\* the main loop runs no interval unless it sees the guard of line 503 pass
ClockRuns_IgnoresPause == step = "simulate"

\* the guard of the main loop effect, line 503: the interval exists, and
\* its callback runs, only in simulate mode with isPaused off
ClockRuns == step = "simulate" /\ ~isPaused

\* a tick in which Math.random() < spawnChance fails or there is no Entry
TickNoSpawn ==
  /\ ClockRuns
  /\ tick' = (tick + 1) % TickModulus
  /\ \E rolls \in [Entering -> DwellRolls] :
       LET m == Moved(rolls)
       IN  /\ cars' = m.nextCars
           /\ occupiedSpots' = m.occupied
           /\ totalCars' = m.totalCars
  /\ call' = NoCall
  /\ UNCHANGED <<grid, strictFlow, mallDistMap, nextId, step, isPaused>>

\* SpawnStep that reserves the spot before it looks at isBlocked
SpawnStep_ReserveFirst(m, spawnEntry, carType, driverProfile, noise) ==
  LET targetSpot == findBestSpot(grid, occupiedSpots, spawnEntry, carType,
                                 driverProfile, mallDistMap, noise)
      isBlocked == \E i \in 1..Len(cars) :
                     cars[i].x = spawnEntry.x /\ cars[i].y = spawnEntry.y
  IN  /\ call' = [fn |-> "spawn", spawnEntry |-> spawnEntry,
                   targetSpot |-> targetSpot, isBlocked |-> isBlocked]
      /\ IF ~isBlocked /\ targetSpot # NullPoint
         THEN /\ occupiedSpots' = m.occupied \cup {targetSpot}
              /\ cars' = Append(m.nextCars,
                                [id |-> nextId, x |-> spawnEntry.x, y |-> spawnEntry.y,
                                 state |-> "entering", target |-> targetSpot,
                                 parkingTime |-> 0, type |-> carType,
                                 profile |-> driverProfile])
              /\ nextId' = nextId + 1
         ELSE /\ occupiedSpots' = m.occupied \cup ({targetSpot} \ {NullPoint})
              /\ cars' = m.nextCars
              /\ nextId' = nextId

\* SpawnStep that does not reserve the spot it assigns
SpawnStep_NoReservation(m, spawnEntry, carType, driverProfile, noise) ==
  LET targetSpot == findBestSpot(grid, occupiedSpots, spawnEntry, carType,
                                 driverProfile, mallDistMap, noise)
      isBlocked == \E i \in 1..Len(cars) :
                     cars[i].x = spawnEntry.x /\ cars[i].y = spawnEntry.y
  IN  /\ call' = [fn |-> "spawn", spawnEntry |-> spawnEntry,
                   targetSpot |-> targetSpot, isBlocked |-> isBlocked]
      /\ IF ~isBlocked /\ targetSpot # NullPoint
         THEN /\ occupiedSpots' = m.occupied
              /\ cars' = Append(m.nextCars,
                                [id |-> nextId, x |-> spawnEntry.x, y |-> spawnEntry.y,
                                 state |-> "entering", target |-> targetSpot,
                                 parkingTime |-> 0, type |-> carType,
                                 profile |-> driverProfile])
              /\ nextId' = nextId + 1
         ELSE /\ occupiedSpots' = m.occupied
              /\ cars' = m.nextCars
              /\ nextId' = nextId

\* the spawn step, lines 560-594, after the update of the cars
SpawnStep(m, spawnEntry, carType, driverProfile, noise) ==
  LET targetSpot == findBestSpot(grid, occupiedSpots, spawnEntry, carType,
                                 driverProfile, mallDistMap, noise)
      isBlocked == \E i \in 1..Len(cars) :
                     cars[i].x = spawnEntry.x /\ cars[i].y = spawnEntry.y
  IN  /\ call' = [fn |-> "spawn", spawnEntry |-> spawnEntry,
                   targetSpot |-> targetSpot, isBlocked |-> isBlocked]
      /\ IF ~isBlocked /\ targetSpot # NullPoint
         THEN /\ occupiedSpots' = m.occupied \cup {targetSpot}
              /\ cars' = Append(m.nextCars,
                                [id |-> nextId, x |-> spawnEntry.x, y |-> spawnEntry.y,
                                 state |-> "entering", target |-> targetSpot,
                                 parkingTime |-> 0, type |-> carType,
                                 profile |-> driverProfile])
              /\ nextId' = nextId + 1
         ELSE /\ occupiedSpots' = m.occupied
              /\ cars' = m.nextCars
              /\ nextId' = nextId

\* a tick in which the spawn step runs
TickSpawn ==
  /\ ClockRuns
  /\ tick' = (tick + 1) % TickModulus
  /\ nextId < MaxVehicles
  /\ getEntryPoints(grid) # <<>>
  /\ \E rolls \in [Entering -> DwellRolls],
        e \in 1..Len(getEntryPoints(grid)),
        carType \in CarTypes,
        driverProfile \in SimProfiles :
       LET m == Moved(rolls)
           n == Len(CandidatePoints(grid, occupiedSpots, carType, ScanOrder(grid)))
       IN  /\ totalCars' = m.totalCars
           /\ \E noise \in NoiseDraws(n) :
                SpawnStep(m, getEntryPoints(grid)[e], carType, driverProfile, noise)
  /\ UNCHANGED <<grid, strictFlow, mallDistMap, step, isPaused>>

\* the grids of the simulation runs: the gate, the open layout and the lot
\* as they are, and the lot with one cell painted as a wall, a Path cell
\* without flow, an Exit or one more spot
SimEdits ==
  {[op |-> "paint", cell |-> k] :
     k \in {Wall, PathNoFlow, Exit, Parking(STANDARD), Parking(EV)}}

\* the cells that are edited: in the lane, in the bottom row, the bottom
\* left corner
SimEditPoints == {Pt(1, 0), Pt(1, GridH - 1), Pt(0, GridH - 1)}

SimGrids ==
  {GridLot, GridOpen, GridGate}
  \cup {ApplyEdit(GridLot, p, e) : p \in SimEditPoints, e \in SimEdits}

\* the state when the simulation starts: no cars, nothing occupied, the
\* distance map computed by the effect of lines 99-104
Init ==
  /\ grid \in SimGrids
  /\ strictFlow \in BOOLEAN
  /\ mallDistMap = generateMallDistanceMap(grid)
  /\ InitCommon

Next == TickNoSpawn \/ TickSpawn

Spec == Init /\ [][Next]_vars

\* the grids of the runs under a clock that keeps ticking: the lot and the
\* gate, the lot without its Exit, and the lot with its lane walled off
LiveGrids ==
  {GridLot, GridGate,
   ApplyEdit(GridLot, Pt(0, GridH - 1), [op |-> "paint", cell |-> Wall]),
   ApplyEdit(GridLot, Pt(1, 0), [op |-> "paint", cell |-> Wall])}

InitLive ==
  /\ grid \in LiveGrids
  /\ strictFlow \in BOOLEAN
  /\ mallDistMap = generateMallDistanceMap(grid)
  /\ InitCommon

\* a step in which the clock ticks: the interval callback has run and
\* setTick(t => t + 1) of line 509 has changed the counter
ClockTicks ==
  /\ ClockRuns
  /\ tick' \in 0..(TickModulus - 1)
  /\ tick' # tick

\* the simulation under a clock that keeps ticking: in simulate mode with
\* isPaused off the interval of lines 508-597 is set anew after every tick
\* (the effect depends on tick, line 599), so a next tick always comes
SpecLive == InitLive /\ [][Next]_vars /\ WF_tick(ClockTicks)

(***************************************************************************)
(* The operator's controls of the simulation view (App.tsx:736-808) next   *)
(* to the clock.                                                           *)
(***************************************************************************)
\* the playback button, line 751; it is rendered in simulate mode only
\* (line 745)
TogglePause ==
  /\ step = "simulate"
  /\ isPaused' = ~isPaused
  /\ call' = NoCall
  /\ UNCHANGED <<grid, strictFlow, mallDistMap, cars, occupiedSpots, nextId, totalCars,
               step, tick>>

\* the mode switcher, lines 740-741; entering simulate mode runs the effect
\* of lines 99-104
SetStep ==
  /\ \E s \in {"edit", "simulate"} :
       /\ step' = s
       /\ mallDistMap' = IF s = "simulate" /\ Len(grid) > 0
                         THEN generateMallDistanceMap(grid)
                         ELSE mallDistMap
  /\ call' = NoCall
  /\ UNCHANGED <<grid, strictFlow, cars, occupiedSpots, nextId, totalCars, isPaused, tick>>

\* handleClearVehicles, lines 485-488; the Clear button is rendered in
\* simulate mode only
handleClearVehicles ==
  /\ step = "simulate"
  /\ cars' = <<>>
  /\ occupiedSpots' = {}
  /\ call' = NoCall
  /\ UNCHANGED <<grid, strictFlow, mallDistMap, nextId, totalCars, step, isPaused, tick>>

\* handleFullReset, lines 490-499; the Reset All button is rendered in
\* simulate mode only
handleFullReset ==
  /\ step = "simulate"
  /\ cars' = <<>>
  /\ occupiedSpots' = {}
  /\ totalCars' = 0
  /\ tick' = 0
  /\ isPaused' = FALSE
  /\ call' = NoCall
  /\ UNCHANGED <<grid, strictFlow, mallDistMap, nextId, step>>

\* the grids of the runs with the operator's controls
ClockGrids == {GridLot, GridGate}

\* the state when the editor opens on a grid (setStep('edit'), lines 225
\* and 259): no cars, the clock not paused, no distance map yet
InitClock ==
  /\ grid \in ClockGrids
  /\ strictFlow \in BOOLEAN
  /\ mallDistMap = NoDistMap
  /\ cars = <<>>
  /\ occupiedSpots = {}
  /\ nextId = 0
  /\ totalCars = 0
  /\ call = NoCall
  /\ step = "edit"
  /\ isPaused = FALSE
  /\ tick = 0

NextClock ==
  \/ TickNoSpawn
  \/ TickSpawn
  \/ TogglePause
  \/ SetStep
  \/ handleClearVehicles
  \/ handleFullReset

SpecClock == InitClock /\ [][NextClock]_vars

(***************************************************************************)
(* Properties of the simulation loop.                                      *)
(***************************************************************************)
CarsIn(state) == {i \in 1..Len(cars) : cars[i].state = state}

Ids(cs) == {cs[i].id : i \in 1..Len(cs)}

CarOf(cs, id) == cs[CHOOSE i \in 1..Len(cs) : cs[i].id = id]

\* C1: at every tick boundary the number of occupied spots is the number of
\* cars in Parking state plus the number of cars in Entering state.
C1_OccupancyAccounting ==
  Cardinality(occupiedSpots)
    = Cardinality(CarsIn("parking")) + Cardinality(CarsIn("entering"))

\* C2: at every tick boundary no two cars in Entering or Parking state have
\* the same assigned spot, and no car is en route to a cell on which another
\* car is parked.
C2_NoDoubleBooking ==
  \A i, j \in CarsIn("entering") \cup CarsIn("parking") :
    i # j =>
      /\ cars[i].target # cars[j].target
      /\ (cars[i].state = "entering" /\ cars[j].state = "parking")
           => cars[i].target # Pt(cars[j].x, cars[j].y)

\* two cars hold spots at once, one of them a spot that an earlier car left
C2_Witness ==
  /\ Cardinality(CarsIn("entering") \cup CarsIn("parking")) >= 2
  /\ Cardinality(occupiedSpots) >= 2

\* C3: in a tick a car keeps its state or goes from Entering to Parking or
\* from Parking to Exiting; a car leaves the active set only from Exiting;
\* a car that joins the active set is a new car in Entering state, never one
\* that has been in the set before.
C3_Lifecycle ==
  [][ /\ \A id \in Ids(cars) :
           IF id \in Ids(cars')
           THEN LET before == CarOf(cars, id).state
                    after == CarOf(cars', id).state
                IN  \/ after = before
                    \/ before = "entering" /\ after = "parking"
                    \/ before = "parking" /\ after = "exiting"
           ELSE CarOf(cars, id).state = "exiting"
      /\ \A id \in Ids(cars') \ Ids(cars) :
           /\ id >= nextId
           /\ CarOf(cars', id).state = "entering"
    ]_vars

\* a car has gone through its whole life and is gone
C3_Witness ==
  /\ cars = <<>>
  /\ nextId >= 1
  /\ totalCars >= 1
  /\ occupiedSpots = {}

(***************************************************************************)
(* Routes of the Route Finder, stated from the traversal rules and         *)
(* independently of the search.                                            *)
\* the route that the tick computes for a car
RouteOf(c) == findPath(grid, Pt(c.x, c.y), c.target, strictFlow)

\* a car in Entering or Exiting state for which the Route Finder returns
\* the empty route
Stranded(c) ==
  /\ c.state \in {"entering", "exiting"}
  /\ c.target # NullPoint
  /\ RouteOf(c) = <<>>

\* C12: a car in Entering or Exiting state for which the Route Finder
\* returns the empty route keeps its position and its state in that tick
\* and stays in the active set.
C12_EmptyRouteWaits ==
  [][ \A id \in Ids(cars) :
        Stranded(CarOf(cars, id)) =>
          /\ id \in Ids(cars')
          /\ CarOf(cars', id).x = CarOf(cars, id).x
          /\ CarOf(cars', id).y = CarOf(cars, id).y
          /\ CarOf(cars', id).state = CarOf(cars, id).state
    ]_vars

\* C13: a car goes from Entering to Parking only in a tick at whose start
\* it stands on its target, and at every tick boundary every car in Parking
\* state stands on its target, a Parking cell.
C13_ParksOnTarget ==
  /\ [](\A i \in CarsIn("parking") :
          /\ Pt(cars[i].x, cars[i].y) = cars[i].target
          /\ CellAt(grid, cars[i].x, cars[i].y).type = PARKING)
  /\ [][ \A id \in Ids(cars) \cap Ids(cars') :
          (CarOf(cars, id).state = "entering" /\ CarOf(cars', id).state = "parking")
            => Pt(CarOf(cars, id).x, CarOf(cars, id).y) = CarOf(cars, id).target
      ]_vars

\* C14: a car in Exiting state leaves the active set only in a tick at
\* whose start it stands on the Exit cell.
C14_LeavesAtExit ==
  [][ \A id \in Ids(cars) \ Ids(cars') :
        CarOf(cars, id).state = "exiting"
          => Pt(CarOf(cars, id).x, CarOf(cars, id).y) = getExitPoint(grid)
    ]_vars

\* C15: in the tick in which the parkingTime of a parked car reaches zero
\* the car becomes Exiting where it stands, its target becomes the Exit
\* cell, and its cell is not in OccupiedSpots after the tick.
C15_ExpiryFreesSpot ==
  [][ \A id \in Ids(cars) :
        (CarOf(cars, id).state = "parking" /\ CarOf(cars, id).parkingTime - 1 <= 0)
          => /\ id \in Ids(cars')
             /\ CarOf(cars', id).state = "exiting"
             /\ CarOf(cars', id).target = getExitPoint(grid)
             /\ CarOf(cars', id).x = CarOf(cars, id).x
             /\ CarOf(cars', id).y = CarOf(cars, id).y
             /\ Pt(CarOf(cars, id).x, CarOf(cars, id).y) \notin occupiedSpots'
    ]_vars

\* the spot of a car that left it one tick ago was assigned to the car that
\* the spawn step of this tick created: the exiting car, on its way to the
\* Exit, is one hop from the spot
C15_Witness ==
  /\ call.fn = "spawn" /\ ~call.isBlocked /\ call.targetSpot # NullPoint
  /\ \E i \in CarsIn("exiting"), j \in CarsIn("entering") :
       /\ cars[j].id = nextId - 1
       /\ cars[j].target = call.targetSpot
       /\ cars[i].target = getExitPoint(grid) /\ cars[i].target # NullPoint
       /\ cars[i].parkingTime = 0
       /\ Abs(cars[i].x - call.targetSpot.x) + Abs(cars[i].y - call.targetSpot.y) = 1

\* C16: at every tick boundary every coordinate of OccupiedSpots is a
\* Parking cell that is the target of a car in Entering state or the
\* position of a car in Parking state.
C16_OccupiedIsHeld ==
  \A p \in occupiedSpots :
    /\ CellAt(grid, p.x, p.y).type = PARKING
    /\ \/ \E i \in CarsIn("entering") : cars[i].target = p
       \/ \E i \in CarsIn("parking") : Pt(cars[i].x, cars[i].y) = p

\* C17: a tick whose spawn step found the Entry occupied or got no spot
\* from the selector creates no car and leaves the spot that the selector
\* returned, if any, out of OccupiedSpots.
C17_RejectedSpawn ==
  [][ (call'.fn = "spawn" /\ (call'.isBlocked \/ call'.targetSpot = NullPoint))
        => /\ nextId' = nextId
           /\ Ids(cars') \subseteq Ids(cars)
           /\ call'.targetSpot \notin occupiedSpots'
           /\ occupiedSpots' \subseteq
                occupiedSpots \cup {Pt(cars[i].x, cars[i].y) : i \in CarsIn("parking")}
    ]_vars

\* the spawn step of the last tick got a spot from the selector and found
\* the Entry occupied
C17_Witness ==
  /\ call.fn = "spawn"
  /\ call.isBlocked
  /\ call.targetSpot # NullPoint
  /\ call.targetSpot \notin occupiedSpots
  /\ nextId = Len(cars)

\* C18: after a tick that created a car, no other car of the active set
\* stands on the Entry cell of the new car.
C18_EntryNotShared ==
  [][ nextId' = nextId + 1 =>
        \A i \in 1..(Len(cars') - 1) :
          Pt(cars'[i].x, cars'[i].y) # Pt(cars'[Len(cars')].x, cars'[Len(cars')].y)
    ]_vars

C25_OneHopPerTick ==
  [][ \A id \in Ids(cars) \cap Ids(cars') :
        LET before == CarOf(cars, id)
            after == CarOf(cars', id)
        IN  /\ Abs(after.x - before.x) + Abs(after.y - before.y) <= 1
            /\ before.state = "parking" => (after.x = before.x /\ after.y = before.y)
    ]_vars

\* a car on its way, two hops or more from its Entry, while another car
\* has been standing on its spot for some ticks
C25_Witness ==
  \E i \in CarsIn("entering") \cup CarsIn("exiting"), j \in CarsIn("parking") :
    /\ \A e \in 1..Len(getEntryPoints(grid)) :
         Abs(cars[i].x - getEntryPoints(grid)[e].x)
           + Abs(cars[i].y - getEntryPoints(grid)[e].y) >= 2
    /\ getEntryPoints(grid) # <<>>
    /\ cars[j].parkingTime < DwellTime(0, cars[j].profile)
    /\ Pt(cars[j].x, cars[j].y) = cars[j].target

\* C31: the parkingTime of a parked car goes down by exactly 1 in every
\* tick and that of a car that stays Entering or Exiting does not change; a
\* car parks with a dwell time of 1 or more, stays Parking while ticks of
\* its dwell time remain and turns Exiting in the tick that brings its
\* parkingTime to 0, so in the N-th tick after it parked with dwell time N,
\* and not earlier.
C31_DwellCountdown ==
  /\ [](\A i \in CarsIn("parking") : cars[i].parkingTime >= 1)
  /\ [][ \A id \in Ids(cars) :
           LET before == CarOf(cars, id)
           IN  /\ before.state = "parking" =>
                    /\ id \in Ids(cars')
                    /\ CarOf(cars', id).parkingTime = before.parkingTime - 1
                    /\ CarOf(cars', id).state =
                         IF before.parkingTime = 1 THEN "exiting" ELSE "parking"
               /\ (id \in Ids(cars') /\ before.state # "parking") =>
                    IF CarOf(cars', id).state = before.state
                    THEN CarOf(cars', id).parkingTime = before.parkingTime
                    ELSE /\ CarOf(cars', id).state = "parking"
                         /\ CarOf(cars', id).parkingTime >= 1
      ]_vars

\* a car whose dwell time has run down to 0 is on its way out, one hop or
\* more from the spot it left
C31_Witness ==
  \E i \in CarsIn("exiting") :
    /\ cars[i].parkingTime = 0
    /\ cars[i].target = getExitPoint(grid)
    /\ CellAt(grid, cars[i].x, cars[i].y).type # PARKING
    /\ totalCars >= 1

\* the cars that go from Entering to Parking in this step
Arrivals ==
  {id \in Ids(cars) \cap Ids(cars') :
     CarOf(cars, id).state = "entering" /\ CarOf(cars', id).state = "parking"}

\* C32: a step that is not the operator's Reset All adds to the totalCars
\* counter exactly the number of cars that go from Entering to Parking in
\* it, 1 for each, and nothing else, so the counter never goes down between
\* resets and counts the Entering -> Parking transitions since the last one.
C32_CountsArrivals ==
  [][ \/ handleFullReset
      \/ totalCars' = totalCars + Cardinality(Arrivals)
    ]_vars

\* two cars were counted, one after the other, and the second is parked
C32_Witness ==
  /\ totalCars = 2
  /\ nextId = 2
  /\ \E i \in CarsIn("parking") : cars[i].id = 1

\* C33: at every tick boundary the assigned spot of every car in Entering
\* or Parking state, so of every car from the tick that spawned it to the
\* tick that turns it Exiting, is in OccupiedSpots; no release of another
\* car and no other step of a tick takes it out.
C33_ReservationKept ==
  \A i \in CarsIn("entering") \cup CarsIn("parking") :
    cars[i].target \in occupiedSpots

\* a car is on its way to its reserved spot, off the Entry, after another
\* car has released a spot and is on its way out
C33_Witness ==
  \E i \in CarsIn("entering"), j \in CarsIn("exiting") :
    /\ cars[i].target \in occupiedSpots
    /\ CellAt(grid, cars[i].x, cars[i].y).type = PATH
    /\ cars[j].parkingTime = 0
    /\ Pt(cars[j].x, cars[j].y) \notin occupiedSpots

\* the ids of the cars of a run
CarIds == 0..(MaxVehicles - 1)

\* the car with this id is in the active set, in this state
InState(id, state) == id \in Ids(cars) /\ CarOf(cars, id).state = state

\* C34: under a clock that keeps ticking every car leaves the Entering
\* state, leaves the Parking state and leaves the active set; no car stays
\* in the active set forever.
C34_EveryCarLeaves ==
  \A id \in CarIds :
    /\ InState(id, "entering") ~> ~InState(id, "entering")
    /\ InState(id, "parking") ~> ~InState(id, "parking")
    /\ (id \in Ids(cars)) ~> (id \notin Ids(cars))

(***************************************************************************)
InGrid(g, p) == p.x >= 0 /\ p.x < Width(g) /\ p.y >= 0 /\ p.y < Height(g)

Adjacent(p, q) == Abs(p.x - q.x) + Abs(p.y - q.y) = 1

\* the direction of travel of the hop from p to the adjacent q, in degrees
Heading(p, q) ==
  IF q.y = p.y - 1 THEN 0
  ELSE IF q.x = p.x + 1 THEN 90
  ELSE IF q.y = p.y + 1 THEN 180
  ELSE 270

FacingEdge(deg) ==
  IF deg = 0 THEN "north" ELSE IF deg = 90 THEN "east"
  ELSE IF deg = 180 THEN "south" ELSE "west"

IsFlowPath(c) == c.type = PATH /\ c.hasFlow = TRUE

MoreThanHalfSolid(c) ==
  /\ c.subMask # NoMask
  /\ LET cells == {<<i, j>> : i \in 1..Len(c.subMask), j \in 1..Len(c.subMask[1])}
     IN  2 * Cardinality({ij \in cells : c.subMask[ij[1]][ij[2]] = 1}) > Cardinality(cells)

\* The hop from p to q obeys the five traversal rules.  oneWay tells whether
\* the one-way collision rule is in force.
LegalHop(g, p, q, target, strict, oneWay) ==
  /\ InGrid(g, p) /\ InGrid(g, q) /\ Adjacent(p, q)
  /\ LET from == CellAt(g, p.x, p.y)
         to == CellAt(g, q.x, q.y)
         deg == Heading(p, q)
     IN  /\ IsFlowPath(from) => from.rotation = deg
         /\ ~(oneWay /\ IsFlowPath(to) /\ to.rotation = (deg + 180) % 360)
         /\ from.edges[FacingEdge(deg)] # SOLID
         /\ to.edges[FacingEdge((deg + 180) % 360)] # SOLID
         /\ ~MoreThanHalfSolid(to)
         /\ \/ to.type \in {ENTRY, EXIT}
            \/ to.type = PARKING /\ q = target
            \/ to.type = PATH /\ (strict => to.hasFlow = TRUE)

\* the hop count of a pair of cells that no legal route joins
NoRoute == 0 - 1

RECURSIVE HopsWithin(_, _, _, _, _, _, _)
\* the least number of legal hops from a cell of frontier (reached in k hops)
\* to target, or NoRoute
HopsWithin(g, target, strict, oneWay, frontier, seen, k) ==
  IF target \in frontier THEN k
  ELSE LET next == {q \in Points \ seen :
                      \E p \in frontier : LegalHop(g, p, q, target, strict, oneWay)}
       IN  IF next = {} THEN NoRoute
           ELSE HopsWithin(g, target, strict, oneWay, next, seen \cup next, k + 1)

MinHops(g, start, target, strict, oneWay) ==
  HopsWithin(g, target, strict, oneWay, {start}, {start}, 0)

Returned == call.fn = "findPath" /\ call.result # <<>>

\* C4: a non-empty route of findPath starts at start, ends at target, stays
\* inside the grid and moves one orthogonal hop at a time; it is [start]
\* when start equals target.
C4_RouteConnected ==
  Returned =>
    LET r == call.result
    IN  /\ r[1] = call.start
        /\ r[Len(r)] = call.target
        /\ \A i \in 1..Len(r) : InGrid(grid, r[i])
        /\ \A i \in 1..(Len(r) - 1) : Adjacent(r[i], r[i + 1])
        /\ (call.start = call.target => r = <<call.start>>)

C4_Witness == Returned /\ Len(call.result) >= 4

\* C5: no route that obeys every traversal rule has fewer hops than a
\* non-empty route of findPath, with strictFlow on and off (and whether the
\* one-way collision rule is read as always in force or as in force under
\* strictFlow only).
C5_RouteShortest ==
  Returned =>
    \A oneWay \in {TRUE, strictFlow} :
      LET least == MinHops(grid, call.start, call.target, strictFlow, oneWay)
      IN  least = NoRoute \/ least >= Len(call.result) - 1

\* a route that is longer than the Manhattan distance of its endpoints
C5_Witness ==
  /\ Returned
  /\ Len(call.result) - 1 >
       Abs(call.start.x - call.target.x) + Abs(call.start.y - call.target.y)
  /\ MinHops(grid, call.start, call.target, strictFlow, strictFlow) = Len(call.result) - 1

\* C6 as stated: findPath returns the empty sequence exactly when no route
\* obeys the traversal rules (the one-way collision rule always in force).
C6_EmptyIffNoRoute ==
  call.fn = "findPath" =>
    (call.result = <<>>
       <=> MinHops(grid, call.start, call.target, strictFlow, TRUE) = NoRoute)

\* C6 amended: findPath returns the empty sequence exactly when no route
\* obeys the traversal rules, the one-way collision rule being in force only
\* when strictFlow is true.
C6_EmptyIffNoRouteStrictOneWay ==
  call.fn = "findPath" =>
    (call.result = <<>>
       <=> MinHops(grid, call.start, call.target, strictFlow, strictFlow) = NoRoute)

\* no route although the endpoints are two cells the rules let a vehicle stand on
C6_Witness ==
  /\ call.fn = "findPath"
  /\ call.result = <<>>
  /\ CellAt(grid, call.start.x, call.start.y).type = ENTRY
  /\ CellAt(grid, call.target.x, call.target.y).type \in {PARKING, EXIT}

IsNoFlowPath(c) == c.type = PATH /\ c.hasFlow # TRUE

\* C7 as stated: with strictFlow on, no cell of a route is a Path cell
\* without active flow.
C7_NoUnflaggedPath ==
  (Returned /\ strictFlow) =>
    \A i \in 1..Len(call.result) :
      ~IsNoFlowPath(CellAt(grid, call.result[i].x, call.result[i].y))

\* C7 amended: with strictFlow on, no cell of a route other than its first
\* cell (the start) is a Path cell without active flow.
C7_NoUnflaggedPathAfterStart ==
  (Returned /\ strictFlow) =>
    \A i \in 2..Len(call.result) :
      ~IsNoFlowPath(CellAt(grid, call.result[i].x, call.result[i].y))

\* a strict route of at least one hop that starts on a Path cell without flow
C7_Witness ==
  /\ Returned /\ strictFlow
  /\ Len(call.result) >= 2
  /\ IsNoFlowPath(CellAt(grid, call.start.x, call.start.y))

\* C8: with strictFlow on, no hop of a route enters a Path cell whose
\* active flow rotation is opposite to the direction of the hop.
C8_NoWrongWayEntry ==
  (Returned /\ strictFlow) =>
    \A i \in 1..(Len(call.result) - 1) :
      LET to == CellAt(grid, call.result[i + 1].x, call.result[i + 1].y)
          deg == Heading(call.result[i], call.result[i + 1])
      IN  ~(IsFlowPath(to) /\ Abs(to.rotation - deg) = 180)

\* a strict route that passes a cell from which a hop against a one-way
\* flow was the only thing the one-way rule had to forbid
C8_Witness ==
  /\ Returned /\ strictFlow
  /\ Len(call.result) >= 2
  /\ \E i \in 1..Len(call.result), q \in Points :
       /\ Adjacent(call.result[i], q)
       /\ LegalHop(grid, call.result[i], q, call.target, TRUE, FALSE)
       /\ ~LegalHop(grid, call.result[i], q, call.target, TRUE, TRUE)

\* the search takes the move from pos in direction dir: the body of the
\* loop over directions queues the neighbour when nothing is visited yet
Accepts(g, target, strictMode, pos, dir) ==
  TryDirection(g, target, strictMode, pos, <<pos>>, dir,
               [queue |-> <<>>, visited |-> {}]).queue # <<>>

\* the route of the call with strictFlow off
FreeRoute == findPath(grid, call.start, call.target, FALSE)

\* C35: every move that the search takes with strictFlow on it takes with
\* strictFlow off (the moves out of the start of the call, for every start
\* and target); and where findPath returns a route with strictFlow on it
\* returns one with strictFlow off, of no more hops.
C35_StrictRefinesFree ==
  call.fn = "findPath" =>
    /\ \A d \in 1..Len(directions) :
         Accepts(grid, call.target, TRUE, call.start, directions[d])
           => Accepts(grid, call.target, FALSE, call.start, directions[d])
    /\ (strictFlow /\ call.result # <<>>) =>
         /\ FreeRoute # <<>>
         /\ Len(FreeRoute) <= Len(call.result)

\* a strict route that is longer than the route with strictFlow off
C35_Witness ==
  /\ Returned /\ strictFlow
  /\ FreeRoute # <<>>
  /\ Len(FreeRoute) < Len(call.result)

\* the cells of a call
StartCell == CellAt(grid, call.start.x, call.start.y)
TargetCell == CellAt(grid, call.target.x, call.target.y)

\* some connection of start and target obeys the rules as they are with
\* strictFlow off
Connected == MinHops(grid, call.start, call.target, FALSE, FALSE) # NoRoute

\* every such connection enters a Path cell without flow
EntersUnflagged == MinHops(grid, call.start, call.target, TRUE, FALSE) = NoRoute

\* the cars in Entering or Parking state other than car i whose assigned
\* spot is the cell on which car i stands
OthersAssigned(i) ==
  {j \in (CarsIn("entering") \cup CarsIn("parking")) \ {i} :
     cars[j].target = Pt(cars[i].x, cars[i].y)}

\* C36: at every tick boundary every car stands inside the grid on an Entry
\* cell, an Exit cell, a Path cell or the Parking cell assigned to it: a car
\* on a Parking cell is on its target if it is Entering or Parking, has
\* stood there since it parked if it is Exiting, and the cell is the
\* assigned spot of no other car; no car stands on a Wall or a mall
\* entrance.
C36_StandsOnOwnGround ==
  /\ [](\A i \in 1..Len(cars) :
          /\ InGrid(grid, Pt(cars[i].x, cars[i].y))
          /\ LET cell == CellAt(grid, cars[i].x, cars[i].y)
             IN  \/ cell.type \in {ENTRY, EXIT, PATH}
                 \/ /\ cell.type = PARKING
                    /\ cars[i].state \in {"entering", "parking"}
                         => Pt(cars[i].x, cars[i].y) = cars[i].target
                    /\ OthersAssigned(i) = {})
  /\ [][ \A id \in Ids(cars') :
           LET after == CarOf(cars', id)
           IN  (after.state = "exiting" /\ CellAt(grid, after.x, after.y).type = PARKING)
                 => /\ id \in Ids(cars)
                    /\ CarOf(cars, id).state \in {"parking", "exiting"}
                    /\ CarOf(cars, id).x = after.x
                    /\ CarOf(cars, id).y = after.y
      ]_vars

\* the hop count of the shortest legal route of a car to its target, the
\* one-way rule read as oneWay says
HopsLeft(c, oneWay) == MinHops(grid, Pt(c.x, c.y), c.target, strictFlow, oneWay)

\* a tick brings every entering car that has a legal route of d >= 1 hops
\* to a cell with a legal route of d - 1 hops, still entering, and turns an
\* entering car with a route of 0 hops into a parked car where it stands
CountsDown(oneWay) ==
  \A id \in Ids(cars) :
    LET c == CarOf(cars, id)
        d == HopsLeft(c, oneWay)
    IN  (c.state = "entering" /\ c.target # NullPoint /\ d # NoRoute) =>
          /\ id \in Ids(cars')
          /\ LET after == CarOf(cars', id)
             IN  IF d = 0
                 THEN /\ after.state = "parking"
                      /\ Pt(after.x, after.y) = c.target
                 ELSE /\ after.state = "entering"
                      /\ after.target = c.target
                      /\ MinHops(grid, Pt(after.x, after.y), c.target, strictFlow, oneWay)
                           = d - 1

\* C21: an entering car whose shortest legal route to its spot has d hops
\* is one hop nearer after every tick, so it stands on the spot after
\* exactly d ticks, and it turns Parking in the tick after that (whether the
\* one-way collision rule is read as always in force or as in force under
\* strictFlow only); where the route has Manhattan length, d is the
\* Manhattan distance from the Entry to the spot.
C21_ArrivesAfterRouteLength ==
  [][\A oneWay \in {TRUE, strictFlow} : CountsDown(oneWay)]_vars

\* an entering car stands on its spot, which is two hops or more from the
\* Entry along a legal route of Manhattan length
C21_Witness ==
  \E i \in CarsIn("entering"), e \in 1..Len(getEntryPoints(grid)) :
    LET entry == getEntryPoints(grid)[e]
        d == MinHops(grid, entry, cars[i].target, strictFlow, strictFlow)
    IN  /\ Pt(cars[i].x, cars[i].y) = cars[i].target
        /\ d >= 2
        /\ d = Abs(entry.x - cars[i].target.x) + Abs(entry.y - cars[i].target.y)

\* C22: when start and target are connected and every connection runs
\* through a Path cell without flow (a cell it enters after its start),
\* findPath returns a route with strictFlow off and the empty sequence with
\* strictFlow on, for the same grid and endpoints.
C22_StrictRejects ==
  call.fn = "findPath" =>
    \/ (call.result = <<>>) <=> strictFlow
    \/ ~EntersUnflagged
    \/ ~Connected

\* a route with strictFlow off that passes over a Path cell without flow
\* between an Entry and a spot, where every connection does
C22_Witness ==
  /\ Returned /\ ~strictFlow
  /\ EntersUnflagged
  /\ StartCell.type = ENTRY /\ TargetCell.type = PARKING
  /\ Len(call.result) >= 3

\* the hop from p to the adjacent q leaves a Path cell with active flow in
\* the direction of its rotation, or leaves a cell of another kind
AlongFlow(g, p, q) ==
  LET from == CellAt(g, p.x, p.y)
  IN  IsFlowPath(from) => from.rotation = Heading(p, q)

\* The hop from p to q obeys the rules of a Route Finder in which flow is no
\* law: edge walls, sub-masks and the walkability of strictFlow off.
FreeHop(g, p, q, target) ==
  /\ InGrid(g, p) /\ InGrid(g, q) /\ Adjacent(p, q)
  /\ LET from == CellAt(g, p.x, p.y)
         to == CellAt(g, q.x, q.y)
         deg == Heading(p, q)
     IN  /\ from.edges[FacingEdge(deg)] # SOLID
         /\ to.edges[FacingEdge((deg + 180) % 360)] # SOLID
         /\ ~MoreThanHalfSolid(to)
         /\ \/ to.type \in {ENTRY, EXIT, PATH}
            \/ to.type = PARKING /\ q = target

RECURSIVE FreeHopsWithin(_, _, _, _, _)
\* the least number of such hops from a cell of frontier to target
FreeHopsWithin(g, target, frontier, seen, k) ==
  IF target \in frontier THEN k
  ELSE LET next == {q \in Points \ seen : \E p \in frontier : FreeHop(g, p, q, target)}
       IN  IF next = {} THEN NoRoute
           ELSE FreeHopsWithin(g, target, next, seen \cup next, k + 1)

FreeMinHops(g, start, target) == FreeHopsWithin(g, target, {start}, {start}, 0)

\* C24 as stated: with strictFlow on every hop of a route leaves a Path
\* cell with flow in the direction of its rotation; with strictFlow off the
\* flow of a Path cell restricts nothing, so that findPath returns a route
\* whenever hops that ignore flow join start and target.
C24_FlowLawBySwitch ==
  call.fn = "findPath" =>
    IF strictFlow
    THEN \A i \in 1..(Len(call.result) - 1) :
           AlongFlow(grid, call.result[i], call.result[i + 1])
    ELSE (call.result = <<>>) <=> (FreeMinHops(grid, call.start, call.target) = NoRoute)

\* C24 amended: strictFlow switches the walkability of Path cells without
\* flow and the one-way collision rule; with strictFlow on and off alike
\* every hop of a route leaves a Path cell with flow in the direction of its
\* rotation.
C24_FlowLawBothWays ==
  Returned =>
    \A i \in 1..(Len(call.result) - 1) :
      /\ AlongFlow(grid, call.result[i], call.result[i + 1])
      /\ LegalHop(grid, call.result[i], call.result[i + 1], call.target,
                  strictFlow, strictFlow)

\* with strictFlow off the flow of a Path cell takes the route the long way
\* round: hops that ignore flow would join start and target in fewer hops
C24_Witness ==
  /\ Returned /\ ~strictFlow
  /\ \E i \in 1..(Len(call.result) - 1) :
       IsFlowPath(CellAt(grid, call.result[i].x, call.result[i].y))
  /\ FreeMinHops(grid, call.start, call.target) < Len(call.result) - 1

\* C26: with strictFlow on and off, every hop of a route that leaves a
\* Path cell with active flow goes in the direction of its rotation (0 up,
\* 90 right, 180 down, 270 left); hops that leave a cell of another type
\* or a Path cell without flow go in any direction.
C26_LeavesAlongFlow ==
  Returned =>
    \A i \in 1..(Len(call.result) - 1) :
      LET p == call.result[i]
          q == call.result[i + 1]
          from == CellAt(grid, p.x, p.y)
      IN  IsFlowPath(from) =>
            /\ from.rotation = 0 => (q.x = p.x /\ q.y = p.y - 1)
            /\ from.rotation = 90 => (q.x = p.x + 1 /\ q.y = p.y)
            /\ from.rotation = 180 => (q.x = p.x /\ q.y = p.y + 1)
            /\ from.rotation = 270 => (q.x = p.x - 1 /\ q.y = p.y)

\* a route with hops out of Path cells with flow in two directions, and a
\* first hop out of a start cell that has no flow
C26_Witness ==
  /\ Returned
  /\ ~IsFlowPath(StartCell)
  /\ \E i, j \in 2..(Len(call.result) - 1) :
       /\ IsFlowPath(CellAt(grid, call.result[i].x, call.result[i].y))
       /\ IsFlowPath(CellAt(grid, call.result[j].x, call.result[j].y))
       /\ Heading(call.result[i], call.result[i + 1])
            # Heading(call.result[j], call.result[j + 1])

\* C27 as stated: with strictFlow on and off, no hop of a route enters a
\* Path cell whose active flow rotation is opposite to the direction of
\* the hop.
C27_NoWrongWayEntryEver ==
  Returned =>
    \A i \in 1..(Len(call.result) - 1) :
      LET to == CellAt(grid, call.result[i + 1].x, call.result[i + 1].y)
      IN  ~(IsFlowPath(to)
            /\ to.rotation = (Heading(call.result[i], call.result[i + 1]) + 180) % 360)

\* C27 amended: with strictFlow on, no hop of a route enters a Path cell
\* against its flow; with strictFlow off the move is not rejected: when the
\* one hop from start to target breaks no other rule, it is the route.
C27_WrongWayEntryByStrict ==
  call.fn = "findPath" =>
    IF strictFlow
    THEN \A i \in 1..(Len(call.result) - 1) :
           LET to == CellAt(grid, call.result[i + 1].x, call.result[i + 1].y)
           IN  ~(IsFlowPath(to)
                 /\ to.rotation
                      = (Heading(call.result[i], call.result[i + 1]) + 180) % 360)
    ELSE LegalHop(grid, call.start, call.target, call.target, FALSE, FALSE)
           => call.result = <<call.start, call.target>>

\* with strictFlow off, a route whose last hop enters a Path cell against
\* its flow
C27_Witness ==
  /\ Returned /\ ~strictFlow
  /\ Len(call.result) >= 2
  /\ IsFlowPath(TargetCell)
  /\ TargetCell.rotation
       = (Heading(call.result[Len(call.result) - 1], call.target) + 180) % 360

\* the edge of the hop from p to the adjacent q on the side of p, and on
\* the side of q
EdgeLeft(g, p, q) == CellAt(g, p.x, p.y).edges[FacingEdge(Heading(p, q))]
EdgeEntered(g, p, q) == CellAt(g, q.x, q.y).edges[FacingEdge((Heading(p, q) + 180) % 360)]

\* C28: for every hop of a route, the cell that is left has no solid wall
\* on the edge in the direction of the hop and the cell that is entered has
\* none on the opposite edge.
C28_NoEdgeWallCrossed ==
  Returned =>
    \A i \in 1..(Len(call.result) - 1) :
      /\ EdgeLeft(grid, call.result[i], call.result[i + 1]) # SOLID
      /\ EdgeEntered(grid, call.result[i], call.result[i + 1]) # SOLID

\* the hop from p to q breaks no rule but that of the edge walls, and the
\* wall is declared on the side of q only
WalledOnFarSide(g, p, q, target, strict) ==
  /\ q \in Points /\ Adjacent(p, q)
  /\ EdgeLeft(g, p, q) # SOLID
  /\ EdgeEntered(g, p, q) = SOLID
  /\ LET open == [g EXCEPT ![q.y + 1][q.x + 1].edges = NoEdges]
     IN  LegalHop(open, p, q, target, strict, strict)

\* a route takes the long way round because the direct hop from start to
\* target meets a wall that the target alone declares
C28_Witness ==
  /\ Returned
  /\ Len(call.result) >= 3
  /\ WalledOnFarSide(grid, call.start, call.target, call.target, strictFlow)

\* C29: no cell that a route enters, the target included, has a sub-mask
\* with more than half of its sub-cells solid; a mask that is half solid
\* does not block: when the one hop from start to target breaks no rule, it
\* is the route.
C29_NoSolidMaskEntered ==
  call.fn = "findPath" =>
    /\ \A i \in 2..Len(call.result) :
         ~MoreThanHalfSolid(CellAt(grid, call.result[i].x, call.result[i].y))
    /\ LegalHop(grid, call.start, call.target, call.target, strictFlow, strictFlow)
         => call.result = <<call.start, call.target>>

\* a route enters a target whose mask is exactly half solid
C29_Witness ==
  /\ Returned
  /\ Len(call.result) >= 2
  /\ TargetCell.subMask = HalfMask

\* C30: every cell of a route after the start is an Entry, an Exit or a
\* Path cell, or is the target and a Parking cell.
C30_WalkableCellsOnly ==
  Returned =>
    \A i \in 2..Len(call.result) :
      LET c == CellAt(grid, call.result[i].x, call.result[i].y)
      IN  \/ c.type \in {ENTRY, EXIT, PATH}
          \/ c.type = PARKING /\ call.result[i] = call.target

\* a route to a spot goes round another spot: it is longer than the
\* Manhattan distance of its endpoints, and a Parking cell that is not the
\* target lies next to its start
C30_Witness ==
  /\ Returned
  /\ TargetCell.type = PARKING
  /\ Len(call.result) - 1 >
       Abs(call.start.x - call.target.x) + Abs(call.start.y - call.target.y)
  /\ \E q \in Points \ {call.target} :
       /\ Adjacent(call.start, q)
       /\ CellAt(grid, q.x, q.y).type = PARKING
       /\ Abs(q.x - call.target.x) + Abs(q.y - call.target.y)
            < Abs(call.start.x - call.target.x) + Abs(call.start.y - call.target.y)

(***************************************************************************)
(* Properties of the distance field.                                       *)
(***************************************************************************)
RECURSIVE WalkWithin(_, _, _, _, _)
\* the least number of hops from a cell of frontier (reached in k hops) to p
\* over cells that are not Wall cells, or Infinity
WalkWithin(g, p, frontier, seen, k) ==
  IF p \in frontier THEN k
  ELSE LET next == {q \in Points \ seen :
                      /\ CellAt(g, q.x, q.y).type # WALL
                      /\ \E f \in frontier : Adjacent(f, q)}
       IN  IF next = {} THEN Infinity
           ELSE WalkWithin(g, p, next, seen \cup next, k + 1)

Least(S) == CHOOSE n \in S : \A m \in S : n <= m

\* a search from every Destination cell on its own, minimised
BruteForceDistance(g, p) ==
  Least({Infinity}
        \cup {WalkWithin(g, p, {d}, {d}, 0) :
                d \in {q \in Points : CellAt(g, q.x, q.y).type = MALL}})

MapReturned == call.fn = "generateMallDistanceMap"

\* C9: generateMallDistanceMap gives every Destination cell 0 and every
\* other cell the least number of orthogonal hops to a Destination cell over
\* cells that are not Wall cells, or Infinity when there is no such walk: the
\* value of a search run from every Destination cell on its own, minimised.
C9_DistanceField ==
  MapReturned =>
    \A p \in Points :
      /\ call.result[p.y + 1][p.x + 1] = BruteForceDistance(grid, p)
      /\ CellAt(grid, p.x, p.y).type = MALL => call.result[p.y + 1][p.x + 1] = 0

\* a field with two Destination cells, a cell some hops away from them and
\* a cell that is no Wall and yet cut off
C9_Witness ==
  /\ MapReturned
  /\ Cardinality({p \in Points : CellAt(grid, p.x, p.y).type = MALL}) >= 2
  /\ \E p \in Points :
       call.result[p.y + 1][p.x + 1] >= 1 /\ call.result[p.y + 1][p.x + 1] < Infinity
  /\ \E p \in Points :
       CellAt(grid, p.x, p.y).type # WALL /\ call.result[p.y + 1][p.x + 1] = Infinity

(***************************************************************************)
(* Properties of the Spot Selector.                                        *)
(***************************************************************************)
\* the compatibility table: the spot types a preference may take
CompatibleSpotTypes(preference) ==
  IF preference = EV THEN {EV, STANDARD}
  ELSE IF preference = DISABLED THEN {DISABLED}
  ELSE IF preference = STANDARD THEN {STANDARD, COMPACT}
  ELSE SpotTypes \ {RESERVED}

\* the type of a spot; a Parking cell without a spotType is a Standard spot
SpotTypeOf(c) == IF c.spotType = NoSpotType THEN STANDARD ELSE c.spotType

SpotReturned == call.fn = "findBestSpot" /\ call.result # NullPoint

\* C10: findBestSpot never returns a cell of OccupiedSpots, never a cell
\* that is not a Parking cell, and never a spot whose type the preference
\* may not take (EV: EV or Standard; Disabled: Disabled; Standard: Standard
\* or Compact; a Reserved spot for no preference).
C10_SpotAdmissible ==
  SpotReturned =>
    LET c == CellAt(grid, call.result.x, call.result.y)
    IN  /\ call.result \notin call.occupied
        /\ c.type = PARKING
        /\ SpotTypeOf(c) \in CompatibleSpotTypes(call.carType)
        /\ SpotTypeOf(c) # RESERVED

\* a spot is returned although another spot is occupied and a free spot of
\* a type the preference may not take lies nearer to the entry
C10_Witness ==
  /\ SpotReturned
  /\ call.occupied # {}
  /\ call.carType \in CarTypes
  /\ \E p \in ParkingPoints(grid) \ call.occupied :
       /\ SpotTypeOf(CellAt(grid, p.x, p.y)) \notin CompatibleSpotTypes(call.carType)
       /\ Abs(p.x - call.entryPoint.x) + Abs(p.y - call.entryPoint.y)
            < Abs(call.result.x - call.entryPoint.x) + Abs(call.result.y - call.entryPoint.y)

\* the free spots of a type that the preference may take
FreeCompatible(g, occupied, preference) ==
  {p \in ParkingPoints(g) \ occupied :
     SpotTypeOf(CellAt(g, p.x, p.y)) \in CompatibleSpotTypes(preference)}

\* C11: for a preference of the compatibility table (EV, Disabled,
\* Standard), findBestSpot returns none exactly when no unoccupied Parking
\* cell has a type the preference may take, and some cell otherwise; an EV
\* preference whose only free spot is a Disabled spot gets none.
C11_NoneIffNoCandidate ==
  (call.fn = "findBestSpot" /\ call.carType \in CarTypes) =>
    /\ (call.result = NullPoint) <=> (FreeCompatible(grid, call.occupied, call.carType) = {})
    /\ (/\ call.carType = EV
        /\ \A p \in ParkingPoints(grid) \ call.occupied :
              SpotTypeOf(CellAt(grid, p.x, p.y)) = DISABLED)
       => call.result = NullPoint

\* scenario B: the grid has an EV spot and a Disabled spot only, the EV
\* spot is occupied, and an EV preference gets none
C11_Witness ==
  /\ call.fn = "findBestSpot"
  /\ call.carType = EV
  /\ call.result = NullPoint
  /\ \E p, q \in ParkingPoints(grid) :
       /\ ParkingPoints(grid) = {p, q}
       /\ SpotTypeOf(CellAt(grid, p.x, p.y)) = EV
       /\ SpotTypeOf(CellAt(grid, q.x, q.y)) = DISABLED
       /\ call.occupied = {p}

\* C20: on a grid without a mall entrance the distance map of the
\* simulation is all-unreachable and the spot chosen with it is the spot
\* chosen with 0 as the mall-distance term of every candidate, that is by
\* the entry-distance and random terms alone.
C20_NeutralMallTerm ==
  (/\ call.fn = "findBestSpot"
   /\ \A p \in Points : CellAt(grid, p.x, p.y).type # MALL
   /\ mallDistMap = generateMallDistanceMap(grid))
  => /\ \A p \in Points : mallDistMap[p.y + 1][p.x + 1] = Infinity
     /\ call.result = findBestSpot(grid, call.occupied, call.entryPoint, call.carType,
                                   call.profile, NoDistMap, call.noise)

(***************************************************************************)
(* Properties of the calls on a zero-sized grid.                           *)
(***************************************************************************)
\* C19: on a zero-sized grid generateMallDistanceMap returns the empty
\* field and findPath returns the empty route, for any start and target,
\* and neither call ends with an exception.
C19_ZeroGridEmptyResults ==
  /\ call.fn = "generateMallDistanceMap"
       => call.result = [yy \in 1..Height(grid) |-> <<>>]
  /\ call.fn = "findPath" => call.result = Returns(<<>>)

====
